---- MODULE Spec2Model ----
(***************************************************************************)
(* Authentication, identity resolution and role-gated access control of    *)
(* the Citizen Civic AI backend (backend/app).                             *)
(*                                                                         *)
(* One action models one HTTP request, from the bearer-token dependency    *)
(* through the endpoint to the service call and its store writes.  Time is *)
(* counted in minutes.  Document ids are the integers 1, 2, ...; federated *)
(* (Firebase) uids are integers above 100, so that a federated uid is      *)
(* never the id of a stored document (ObjectId(uid) fails in the code).    *)
(***************************************************************************)
EXTENDS Integers, FiniteSets, Sequences, TLC

\* ---------------------------------------------------------------- bounds
MaxTokens == 1
MaxTicks == 1
MaxPosts == 1
MaxComplaints == 1
MaxHistory == 3
MaxInflight == 2
MaxUsers == 2
MaxComments == 1
MaxSessions == 1
MaxMessages == 4

\* ------------------------------------------------------------- constants
ACCESS_TOKEN_EXPIRE_MINUTES == 60 * 24

Roles == {"citizen", "authority", "admin"}

\* e-mail addresses as <<local part, domain>>
Emails == {<<"a", "x">>, <<"a", "y">>}
Passwords == {"pw", "bad"}
NoUid == 0
\* a federated identity without an e-mail address (phone sign-in, say)
NoEmail == <<>>
NoHash == <<>>
\* last_login of an account that never logged in
NoLogin == -1
NoClaims == [scheme |-> "none"]

\* ComplaintStatus
ComplaintStatuses == {"pending", "acknowledged", "in_progress", "resolved",
                      "rejected", "escalated"}
\* a deleted document: its id is never given out again
Deleted == [deleted |-> TRUE]

\* values settings.SECRET_KEY can take: unset (the default) or configured
SecretKeySettings == {"", "k0"}
\* values secrets.token_urlsafe(32) can return
DevKeys == {"d1", "d2"}

VARIABLES
    users,      \* the users collection: id -> User document
    posts,      \* the posts collection: id -> Post document
    complaints, \* the complaints collection: id -> Complaint document
    tokens,     \* the session tokens clients hold
    clock,      \* datetime.utcnow(), in minutes
    SECRET_KEY, \* settings.SECRET_KEY of the running process
    last,       \* the request handled last and its response
    inflight,   \* the requests being handled step by step: slot -> its
                \* position in the handler and the handler's local variables
    comments,      \* the comments collection: id -> Comment document
    chat_sessions, \* the chat_sessions collection: id -> ChatSession document
    chat_messages  \* the chat_messages collection: the ChatMessage documents

vars == <<users, posts, complaints, tokens, clock, SECRET_KEY, last, inflight,
          comments, chat_sessions, chat_messages>>

\* ------------------------------------------------------- security.py

\* get_secret_key(): the configured key, else a freshly generated one
\* (fresh stands for the value secrets.token_urlsafe returns in this call)
get_secret_key(fresh) == IF SECRET_KEY # "" THEN SECRET_KEY ELSE fresh

get_password_hash(password) == <<"bcrypt", password>>

\* a verifier that accepts any password
verify_password_any(plain, hashed) == hashed # NoHash

verify_password(plain, hashed) == hashed = <<"bcrypt", plain>>

\* create_access_token taking the minutes for seconds
create_access_token_seconds(data, fresh) ==
    [kind |-> "jwt", sub |-> data.sub, email |-> data.email, role |-> data.role,
     exp |-> clock + ACCESS_TOKEN_EXPIRE_MINUTES \div 60, key |-> get_secret_key(fresh)]

\* create_access_token(data): data plus exp, signed with get_secret_key()
create_access_token(data, fresh) ==
    [kind |-> "jwt", sub |-> data.sub, email |-> data.email, role |-> data.role,
     exp |-> clock + ACCESS_TOKEN_EXPIRE_MINUTES, key |-> get_secret_key(fresh)]

\* jwt.decode raises JWTError for a malformed token, a signature made with
\* another key and an expired token (exp < now)
jwt_decode_ok(token, key) ==
    /\ token.kind = "jwt"
    /\ token.key = key
    /\ ~(token.exp < clock)

\* decode_access_token(token): the payload, or None on JWTError
decode_access_token(token, fresh) ==
    IF jwt_decode_ok(token, get_secret_key(fresh))
    THEN [scheme |-> "local", sub |-> token.sub, email |-> token.email,
          role |-> token.role, exp |-> token.exp]
    ELSE NoClaims

\* what the provider library does with a token in this call
ProviderOutcomes == {"ok", "unreachable", "uninitialised"}

\* firebase_auth.verify_id_token: the claims of a token the provider accepts,
\* the custom claims in it (a role, say) included; otherwise it raises (exc
\* names the exception)
verify_id_token(token, provider) ==
    IF provider # "ok" THEN [exc |-> provider, val |-> NoClaims]
    ELSE IF token.kind # "firebase" THEN [exc |-> "invalid", val |-> NoClaims]
    ELSE [exc |-> "", val |-> [scheme |-> "federated", sub |-> token.uid,
                               uid |-> token.uid, email |-> token.email,
                               role |-> token.role]]

\* verify_firebase_token catching only the provider's invalid-token error
verify_firebase_token_narrow(token, provider) ==
    LET r == verify_id_token(token, provider)
    IN  IF r.exc = "invalid" THEN [exc |-> "", val |-> NoClaims, log |-> r.exc]
        ELSE [exc |-> r.exc, val |-> r.val, log |-> ""]

\* verify_firebase_token: try ... except Exception: print the error, return
\* None; log is the error printed, "" when there was none
verify_firebase_token(token, provider) ==
    LET r == verify_id_token(token, provider)
    IN  IF r.exc # "" THEN [exc |-> "", val |-> NoClaims, log |-> r.exc]
        ELSE [exc |-> "", val |-> r.val, log |-> ""]

\* get_current_user_from_token asking the provider first
get_current_user_from_token_fed_first(token, fresh, provider) ==
    LET payload == decode_access_token(token, fresh)
        fb == verify_firebase_token(token, provider)
    IN  IF fb.exc # ""
        THEN [status |-> 500, claims |-> NoClaims, fb |-> fb.exc]
        ELSE IF fb.val # NoClaims
        THEN [status |-> 200, claims |-> fb.val, fb |-> "verified"]
        ELSE IF payload # NoClaims
        THEN [status |-> 200, claims |-> payload, fb |-> fb.log]
        ELSE [status |-> 401, claims |-> NoClaims, fb |-> fb.log]

\* get_current_user_from_token: local first, then federated, else 401; an
\* exception escaping the dependency is a 500.  fb tells what happened at
\* the provider: "skipped" (not called), "verified", or the error printed
get_current_user_from_token(token, fresh, provider) ==
    LET payload == decode_access_token(token, fresh)
        fb == verify_firebase_token(token, provider)
    IN  IF payload # NoClaims
        THEN [status |-> 200, claims |-> payload, fb |-> "skipped"]
        ELSE IF fb.exc # ""
        THEN [status |-> 500, claims |-> NoClaims, fb |-> fb.exc]
        ELSE IF fb.val # NoClaims
        THEN [status |-> 200, claims |-> fb.val, fb |-> "verified"]
        ELSE [status |-> 401, claims |-> NoClaims, fb |-> fb.log]

\* --------------------------------------------------------- the store

\* AuthService.get_user_by_id: User.get(ObjectId(user_id)), None on failure
HasUser(id) == id \in DOMAIN users

find_by_email(email) == {i \in DOMAIN users : users[i].email = email}
find_by_username(username) == {i \in DOMAIN users : users[i].username = username}
find_by_firebase_uid(uid) == {i \in DOMAIN users : users[i].firebase_uid = uid}

\* the _id the store gives the next inserted document
NewId == Cardinality(DOMAIN users) + 1

\* the User document and its field defaults
User(email, firebase_uid, password_hash, username, role) ==
    [email |-> email, firebase_uid |-> firebase_uid, password_hash |-> password_hash,
     username |-> username, role |-> role,
     authority_verified |-> FALSE, is_active |-> TRUE, last_login |-> NoLogin,
     following |-> <<>>, followers |-> <<>>]

\* user.last_login = datetime.utcnow(), done by every successful login
update_last_login(doc) == [doc EXCEPT !.last_login = clock]

Insert(id, doc) == [i \in DOMAIN users \cup {id} |-> IF i = id THEN doc ELSE users[i]]

\* the bearer tokens a client can present: a session token it holds, a
\* token signed by somebody else, a federated identity token, anything else
Forged ==
    [kind |-> "jwt", sub |-> 1, email |-> <<"a", "x">>, role |-> "admin",
     exp |-> (MaxTicks + 2) * (ACCESS_TOKEN_EXPIRE_MINUTES + 1), key |-> "evil"]
FirebaseTokens ==
    {[kind |-> "firebase", uid |-> 101, email |-> <<"a", "x">>, role |-> ""],
     [kind |-> "firebase", uid |-> 102, email |-> <<"a", "y">>, role |-> ""]}
Garbage == [kind |-> "garbage"]
NoToken == [kind |-> "none"]

\* the response to the request handled at this instant, with the bearer it
\* presented, the claims that resolved to, what happened at the provider,
\* and the session token handed out
Response(op, status, bearer, res, issued) ==
    [op |-> op, status |-> status, bearer |-> bearer, claims |-> res.claims,
     fb |-> res.fb, issued |-> issued]

\* no request handled at this instant
Idle == [op |-> "idle", status |-> 200, bearer |-> NoToken, claims |-> NoClaims,
         fb |-> "skipped", issued |-> NoToken]

\* endpoints without the bearer dependency
NoAuth == [status |-> 200, claims |-> NoClaims, fb |-> "skipped"]

\* the token data every issuance path builds from the user document
token_data(id, doc) == [sub |-> id, email |-> doc.email, role |-> doc.role]

\* the tokens the client of one account holds
Held(sub) == {t \in tokens : t.sub = sub}

\* the client handed a token drops it, or keeps it, or keeps it in place of
\* one it holds; the client of an account holds at most MaxTokens tokens
Issue(t) ==
    \/ tokens' = tokens
    \/ /\ Cardinality(Held(t.sub) \cup {t}) <= MaxTokens
       /\ tokens' = tokens \cup {t}
    \/ \E old \in Held(t.sub) : tokens' = (tokens \ {old}) \cup {t}

\* the requests the server handles at the same time
Slots == 1 .. MaxInflight

\* a slot with no request in it
NoRequest == [pc |-> "none"]

\* ------------------------------------------------------------- Init

\* an administrator account can only be seeded into the store
SeedAdmin ==
    User(<<"a", "x">>, NoUid, get_password_hash("pw"), <<"a", 0>>, "admin")

Init ==
    /\ users \in {<<>>, <<SeedAdmin>>}
    /\ posts = <<>>
    /\ complaints = <<>>
    /\ tokens = {}
    /\ clock = 0
    /\ SECRET_KEY \in SecretKeySettings
    /\ last = Idle
    /\ inflight = [s \in Slots |-> NoRequest]
    /\ comments = <<>>
    /\ chat_sessions = <<>>
    /\ chat_messages = <<>>

\* --------------------------------------------------- auth endpoints

\* register_user taking the role from the request
signup_user_admin(email, password, username) ==
    User(email, NoUid, get_password_hash(password), <<username, 0>>, "admin")

\* the document register_user creates
signup_user(email, password, username) ==
    User(email, NoUid, get_password_hash(password), <<username, 0>>, "citizen")

\* POST /auth/register -> AuthService.register_user
register_user(email, password, username, fresh) ==
    /\ UNCHANGED <<posts, complaints, clock, SECRET_KEY, inflight>>
    /\ UNCHANGED <<comments, chat_sessions, chat_messages>>
    /\ IF find_by_email(email) # {} \/ find_by_username(<<username, 0>>) # {}
       THEN /\ last' = Response("register", 400, NoToken, NoAuth, NoToken)
            /\ UNCHANGED <<users, tokens>>
       ELSE LET doc == signup_user(email, password, username)
                t == create_access_token(token_data(NewId, doc), fresh)
            IN  /\ users' = Insert(NewId, doc)
                /\ Issue(t)
                /\ last' = Response("register", 200, NoToken, NoAuth, t)

\* POST /auth/login -> AuthService.login_user
login_user(email, password, fresh) ==
    /\ UNCHANGED <<posts, complaints, clock, SECRET_KEY, inflight>>
    /\ UNCHANGED <<comments, chat_sessions, chat_messages>>
    /\ LET found == find_by_email(email)
       IN  IF \/ found = {}
              \/ \E i \in found :
                    \/ users[i].password_hash = NoHash
                    \/ ~verify_password(password, users[i].password_hash)
                    \/ ~users[i].is_active
           THEN /\ last' = Response("login", 401, NoToken, NoAuth, NoToken)
                /\ UNCHANGED <<users, tokens>>
           ELSE \E i \in found :
                  LET t == create_access_token(token_data(i, users[i]), fresh)
                  IN  /\ users' = [users EXCEPT ![i] = update_last_login(users[i])]
                      /\ Issue(t)
                      /\ last' = Response("login", 200, NoToken, NoAuth, t)

\* POST /auth/admin/login -> AuthService.admin_login
admin_login(email, password, fresh) ==
    /\ UNCHANGED <<posts, complaints, clock, SECRET_KEY, inflight>>
    /\ UNCHANGED <<comments, chat_sessions, chat_messages>>
    /\ LET found == find_by_email(email)
       IN  IF \/ found = {}
              \/ \E i \in found :
                    \/ users[i].password_hash = NoHash
                    \/ users[i].role # "admin"
                    \/ ~verify_password(password, users[i].password_hash)
                    \/ ~users[i].is_active
           THEN /\ last' = Response("admin_login", 401, NoToken, NoAuth, NoToken)
                /\ UNCHANGED <<users, tokens>>
           ELSE \E i \in found :
                  LET t == create_access_token(token_data(i, users[i]), fresh)
                  IN  /\ users' = [users EXCEPT ![i] = update_last_login(users[i])]
                      /\ Issue(t)
                      /\ last' = Response("admin_login", 200, NoToken, NoAuth, t)

\* the username firebase_auth gives a new account: the requested one, else
\* the local part of the e-mail, with the first counter that makes it unique
RECURSIVE unique_username(_, _)
unique_username(base, counter) ==
    IF find_by_username(<<base, counter>>) = {} THEN <<base, counter>>
    ELSE unique_username(base, counter + 1)

\* the document firebase_auth creates for a federated identity without one
federated_user(firebase_data, username) ==
    User(firebase_data.email, firebase_data.uid, NoHash,
         unique_username(IF username # "" THEN username
                         ELSE IF firebase_data.email # NoEmail
                         THEN firebase_data.email[1] ELSE "", 0),
         "citizen")

\* the link step forgetting the uid
link_firebase_uid_skip(doc, firebase_uid) == doc

\* user.firebase_uid = firebase_uid on the user found by e-mail
link_firebase_uid(doc, firebase_uid) == [doc EXCEPT !.firebase_uid = firebase_uid]

\* the else branch of firebase_auth up to user.insert(): the exception it
\* raises, "" when there is none.  Without an e-mail and without a requested
\* username, email.split fails on None; with a username, User(email=None)
\* fails validation (a ValueError)
create_federated(firebase_data, username) ==
    IF firebase_data.email # NoEmail THEN ""
    ELSE IF username = "" THEN "AttributeError"
    ELSE "ValueError"

\* POST /auth/firebase -> AuthService.firebase_auth; the provider is called
\* through verify_firebase_token, fb tells what happened there.  The endpoint
\* turns a ValueError into 401; any other exception is a 500
firebase_auth(firebase_token, username, provider, fresh) ==
    /\ UNCHANGED <<posts, complaints, clock, SECRET_KEY, inflight>>
    /\ UNCHANGED <<comments, chat_sessions, chat_messages>>
    /\ LET v == verify_firebase_token(firebase_token, provider)
           firebase_data == v.val
           res(fb) == [claims |-> firebase_data, fb |-> fb]
       IN  IF v.exc # ""
           THEN /\ last' = Response("firebase_auth", 500, NoToken, res(v.exc), NoToken)
                /\ UNCHANGED <<users, tokens>>
           ELSE IF firebase_data = NoClaims
           THEN /\ last' = Response("firebase_auth", 401, NoToken, res(v.log), NoToken)
                /\ UNCHANGED <<users, tokens>>
           ELSE LET by_uid == find_by_firebase_uid(firebase_data.uid)
                    by_email == find_by_email(firebase_data.email)
                    exc == IF by_uid = {} /\ by_email = {}
                           THEN create_federated(firebase_data, username)
                           ELSE ""
                    id == IF by_uid # {} THEN CHOOSE i \in by_uid : TRUE
                          ELSE IF by_email # {} THEN CHOOSE i \in by_email : TRUE
                          ELSE NewId
                    doc == IF by_uid # {} THEN users[id]
                           ELSE IF by_email # {}
                           THEN link_firebase_uid(users[id], firebase_data.uid)
                           ELSE federated_user(firebase_data, username)
                    t == create_access_token(token_data(id, doc), fresh)
                IN  IF exc # ""
                    THEN /\ last' = Response("firebase_auth",
                                             IF exc = "ValueError" THEN 401 ELSE 500,
                                             NoToken, res("verified"), NoToken)
                         /\ UNCHANGED <<users, tokens>>
                    ELSE /\ users' = Insert(id, update_last_login(doc))
                         /\ Issue(t)
                         /\ last' = Response("firebase_auth", 200, NoToken,
                                             res("verified"), t)

\* POST /auth/verify-token: the handler declares no dependency, so nothing
\* reads the Authorization header; it answers "Token is valid"
verify_token(bearer) ==
    /\ UNCHANGED <<users, posts, complaints, tokens, clock, SECRET_KEY, inflight>>
    /\ UNCHANGED <<comments, chat_sessions, chat_messages>>
    /\ last' = Response("verify_token", 200, bearer, NoAuth, NoToken)

\* ------------------------------------------------- users endpoints

\* a response that leaves every document as it was
Rejected(op, status, bearer, res) ==
    /\ last' = Response(op, status, bearer, res, NoToken)
    /\ UNCHANGED <<users, posts, complaints>>

\* PUT /users/me: only full_name and profile fields can be set here, none of
\* which is a field of the modelled document; the document is saved back
update_profile(bearer, fresh, provider) ==
    /\ UNCHANGED <<tokens, clock, SECRET_KEY, inflight>>
    /\ UNCHANGED <<comments, chat_sessions, chat_messages>>
    /\ LET res == get_current_user_from_token(bearer, fresh, provider)
       IN  IF res.status # 200 THEN Rejected("update_profile", res.status, bearer, res)
           ELSE IF ~HasUser(res.claims.sub)
           THEN Rejected("update_profile", 404, bearer, res)
           ELSE /\ users' = [users EXCEPT ![res.claims.sub] = users[res.claims.sub]]
                /\ last' = Response("update_profile", 200, bearer, res, NoToken)
                /\ UNCHANGED <<posts, complaints>>

\* deactivation that also wipes the credentials
set_is_active_wipe(doc, value) ==
    [doc EXCEPT !.is_active = value, !.password_hash = NoHash]

\* user.is_active = value, the one field deactivation assigns before save()
set_is_active(doc, value) == [doc EXCEPT !.is_active = value]

\* DELETE /users/me
deactivate_account(bearer, fresh, provider) ==
    /\ UNCHANGED <<tokens, clock, SECRET_KEY, inflight>>
    /\ UNCHANGED <<comments, chat_sessions, chat_messages>>
    /\ LET res == get_current_user_from_token(bearer, fresh, provider)
       IN  IF res.status # 200 THEN Rejected("deactivate_account", res.status, bearer, res)
           ELSE IF ~HasUser(res.claims.sub)
           THEN Rejected("deactivate_account", 404, bearer, res)
           ELSE /\ users' = [users EXCEPT
                               ![res.claims.sub] = set_is_active(@, FALSE)]
                /\ last' = Response("deactivate_account", 200, bearer, res, NoToken)
                /\ UNCHANGED <<posts, complaints>>

\* ------------------------------------------------- content creation

\* POST /community/posts -> CommunityService.create_post
\* an optional timestamp that is None
NoTime == -1

\* a CreatePostRequest: content, post_type, visibility, the texts of the
\* poll options and poll_duration_hours (0 for none)
CreatePostRequest(post_type, poll_options, poll_duration_hours) ==
    [content |-> "c0", post_type |-> post_type, visibility |-> "public",
     poll_options |-> poll_options, poll_duration_hours |-> poll_duration_hours]

\* a post that is no poll
PlainPost == CreatePostRequest("update", <<>>, 0)

\* PollOption(id=str(uuid.uuid4()), text=opt): the options get ids no other
\* option of the poll has, and no votes
PollOptions(request) ==
    IF request.post_type = "poll"
    THEN [i \in DOMAIN request.poll_options |-> [id |-> i, votes |-> <<>>]]
    ELSE <<>>

\* CommunityService.create_post: the Post document inserted
Post(user_id, request) ==
    [author_id |-> user_id, is_active |-> TRUE, content |-> request.content,
     visibility |-> request.visibility, post_type |-> request.post_type,
     poll_options |-> PollOptions(request),
     poll_ends_at |-> IF /\ request.post_type = "poll"
                         /\ request.poll_options # <<>>
                         /\ request.poll_duration_hours # 0
                      THEN clock + 60 * request.poll_duration_hours
                      ELSE NoTime]

create_post(request, bearer, fresh, provider) ==
    /\ UNCHANGED <<tokens, clock, SECRET_KEY, inflight>>
    /\ UNCHANGED <<comments, chat_sessions, chat_messages>>
    /\ LET res == get_current_user_from_token(bearer, fresh, provider)
           id == Cardinality(DOMAIN posts) + 1
       IN  IF res.status # 200 THEN Rejected("create_post", res.status, bearer, res)
           ELSE IF ~HasUser(res.claims.sub)
           THEN Rejected("create_post", 404, bearer, res)
           ELSE /\ id <= MaxPosts
                /\ posts' = [i \in DOMAIN posts \cup {id} |->
                               IF i = id
                               THEN Post(res.claims.sub, request)
                               ELSE posts[i]]
                /\ last' = Response("create_post", 200, bearer, res, NoToken)
                /\ UNCHANGED <<users, complaints>>

\* Post.get / Comment.get: the document is stored
HasPost(id) == id \in DOMAIN posts
HasComment(id) == id \in DOMAIN comments

\* an author check that lets administrators through as well
is_author_or_admin(doc, user_id) ==
    doc.author_id = user_id \/ (user_id \in DOMAIN users /\ users[user_id].role = "admin")

\* post.author_id != user_id / comment.author_id != user_id, negated
is_author(doc, user_id) == doc.author_id = user_id

\* an UpdatePostRequest; "" stands for a field left out (None)
UpdatePostRequest(content, visibility) == [content |-> content, visibility |-> visibility]

\* PUT /community/posts/{post_id} -> CommunityService.update_post; a refusal
\* of the service becomes 404
update_post(post_id, request, bearer, fresh, provider) ==
    /\ UNCHANGED <<tokens, clock, SECRET_KEY, inflight>>
    /\ UNCHANGED <<comments, chat_sessions, chat_messages>>
    /\ LET res == get_current_user_from_token(bearer, fresh, provider)
       IN  IF res.status # 200 THEN Rejected("update_post", res.status, bearer, res)
           ELSE IF ~HasPost(post_id) \/ ~is_author(posts[post_id], res.claims.sub)
           THEN Rejected("update_post", 404, bearer, res)
           ELSE /\ posts' = [posts EXCEPT
                               ![post_id].content =
                                   IF request.content # "" THEN request.content ELSE @,
                               ![post_id].visibility =
                                   IF request.visibility # "" THEN request.visibility
                                   ELSE @]
                /\ last' = Response("update_post", 200, bearer, res, NoToken)
                /\ UNCHANGED <<users, complaints>>

\* DELETE /community/posts/{post_id} -> CommunityService.delete_post
delete_post(post_id, bearer, fresh, provider) ==
    /\ UNCHANGED <<tokens, clock, SECRET_KEY, inflight>>
    /\ UNCHANGED <<comments, chat_sessions, chat_messages>>
    /\ LET res == get_current_user_from_token(bearer, fresh, provider)
       IN  IF res.status # 200 THEN Rejected("delete_post", res.status, bearer, res)
           ELSE IF ~HasPost(post_id) \/ ~is_author(posts[post_id], res.claims.sub)
           THEN Rejected("delete_post", 404, bearer, res)
           ELSE /\ posts' = [posts EXCEPT ![post_id].is_active = FALSE]
                /\ last' = Response("delete_post", 200, bearer, res, NoToken)
                /\ UNCHANGED <<users, complaints>>

\* x in list / list.remove(x): the list without the first x
In(x, list) == \E i \in DOMAIN list : list[i] = x

RECURSIVE Remove(_, _)
Remove(list, x) ==
    IF list = <<>> THEN <<>>
    ELSE IF Head(list) = x THEN Tail(list)
    ELSE <<Head(list)>> \o Remove(Tail(list), x)

\* vote_poll: for opt in post.poll_options: if user_id in opt.votes:
\* opt.votes.remove(user_id)
remove_previous_vote(poll_options, user_id) ==
    [k \in DOMAIN poll_options |->
        IF In(user_id, poll_options[k].votes)
        THEN [poll_options[k] EXCEPT !.votes = Remove(@, user_id)]
        ELSE poll_options[k]]

\* vote_poll: the first option with id option_id gets the vote (break)
add_vote(poll_options, option_id, user_id) ==
    LET hits == {k \in DOMAIN poll_options : poll_options[k].id = option_id}
    IN  IF hits = {} THEN poll_options
        ELSE LET first == CHOOSE k \in hits : \A h \in hits : k <= h
             IN  [poll_options EXCEPT ![first].votes = Append(@, user_id)]

\* POST /community/posts/{post_id}/vote/{option_id} ->
\* CommunityService.vote_poll; a refusal of the service becomes 400
vote_poll(post_id, option_id, bearer, fresh, provider) ==
    /\ UNCHANGED <<tokens, clock, SECRET_KEY, inflight>>
    /\ UNCHANGED <<comments, chat_sessions, chat_messages>>
    /\ LET res == get_current_user_from_token(bearer, fresh, provider)
       IN  IF res.status # 200 THEN Rejected("vote_poll", res.status, bearer, res)
           ELSE IF ~HasPost(post_id) \/ posts[post_id].post_type # "poll"
           THEN Rejected("vote_poll", 400, bearer, res)
           ELSE IF /\ posts[post_id].poll_ends_at # NoTime
                   /\ clock > posts[post_id].poll_ends_at
           THEN Rejected("vote_poll", 400, bearer, res)
           ELSE /\ posts' = [posts EXCEPT ![post_id].poll_options =
                                add_vote(remove_previous_vote(@, res.claims.sub),
                                         option_id, res.claims.sub)]
                /\ last' = Response("vote_poll", 200, bearer, res, NoToken)
                /\ UNCHANGED <<users, complaints>>

\* POST /community/posts/{post_id}/comments -> CommunityService.create_comment
create_comment(post_id, bearer, fresh, provider) ==
    /\ UNCHANGED <<tokens, clock, SECRET_KEY, inflight, chat_sessions, chat_messages>>
    /\ LET res == get_current_user_from_token(bearer, fresh, provider)
           refuse(status) == /\ Rejected("create_comment", status, bearer, res)
                             /\ UNCHANGED comments
       IN  IF res.status # 200 THEN refuse(res.status)
           ELSE IF ~HasUser(res.claims.sub) THEN refuse(404)
           ELSE IF ~HasPost(post_id) \/ ~posts[post_id].is_active THEN refuse(404)
           ELSE /\ Len(comments) < MaxComments
                /\ comments' = Append(comments,
                                      [post_id |-> post_id, content |-> "c0",
                                       author_id |-> res.claims.sub,
                                       is_active |-> TRUE])
                /\ last' = Response("create_comment", 200, bearer, res, NoToken)
                /\ UNCHANGED <<users, posts, complaints>>

\* DELETE /community/comments/{comment_id} -> CommunityService.delete_comment
delete_comment(comment_id, bearer, fresh, provider) ==
    /\ UNCHANGED <<tokens, clock, SECRET_KEY, inflight, chat_sessions, chat_messages>>
    /\ LET res == get_current_user_from_token(bearer, fresh, provider)
           refuse(status) == /\ Rejected("delete_comment", status, bearer, res)
                             /\ UNCHANGED comments
       IN  IF res.status # 200 THEN refuse(res.status)
           ELSE IF \/ ~HasComment(comment_id)
                   \/ ~is_author(comments[comment_id], res.claims.sub)
           THEN refuse(404)
           ELSE /\ comments' = [comments EXCEPT ![comment_id].is_active = FALSE]
                /\ last' = Response("delete_comment", 200, bearer, res, NoToken)
                /\ UNCHANGED <<users, posts, complaints>>

\* Complaint.get: the complaint is stored (and was not deleted)
HasComplaint(id) == id \in DOMAIN complaints /\ complaints[id] # Deleted

\* an entry of status_history
StatusUpdate(status, updated_by) == [status |-> status, updated_by |-> updated_by]

\* POST /complaints -> ComplaintService.create_complaint
create_complaint(bearer, is_public, fresh, provider) ==
    /\ UNCHANGED <<tokens, clock, SECRET_KEY, inflight>>
    /\ UNCHANGED <<comments, chat_sessions, chat_messages>>
    /\ LET res == get_current_user_from_token(bearer, fresh, provider)
           id == Cardinality(DOMAIN complaints) + 1
       IN  IF res.status # 200 THEN Rejected("create_complaint", res.status, bearer, res)
           ELSE IF ~HasUser(res.claims.sub)
           THEN Rejected("create_complaint", 404, bearer, res)
           ELSE /\ id <= MaxComplaints
                /\ complaints' = [i \in DOMAIN complaints \cup {id} |->
                                    IF i = id
                                    THEN [reporter_id |-> res.claims.sub,
                                          is_public |-> is_public,
                                          title |-> "t0",
                                          description |-> "d0",
                                          category |-> "other",
                                          upvotes |-> <<>>,
                                          comments |-> <<>>,
                                          status |-> "pending",
                                          resolved_at |-> NoTime,
                                          status_history |->
                                             <<StatusUpdate("pending",
                                                            res.claims.sub)>>]
                                    ELSE complaints[i]]
                /\ last' = Response("create_complaint", 200, bearer, res, NoToken)
                /\ UNCHANGED <<users, posts>>

\* POST /complaints/{complaint_id}/upvote -> ComplaintService.upvote_complaint
upvote_complaint(complaint_id, bearer, fresh, provider) ==
    /\ UNCHANGED <<tokens, clock, SECRET_KEY, inflight>>
    /\ UNCHANGED <<comments, chat_sessions, chat_messages>>
    /\ LET res == get_current_user_from_token(bearer, fresh, provider)
       IN  IF res.status # 200 THEN Rejected("upvote_complaint", res.status, bearer, res)
           ELSE IF ~HasComplaint(complaint_id)
           THEN Rejected("upvote_complaint", 404, bearer, res)
           ELSE /\ complaints' =
                      [complaints EXCEPT ![complaint_id].upvotes =
                          IF In(res.claims.sub, @) THEN Remove(@, res.claims.sub)
                          ELSE Append(@, res.claims.sub)]
                /\ last' = Response("upvote_complaint", 200, bearer, res, NoToken)
                /\ UNCHANGED <<users, posts>>

\* POST /complaints/{complaint_id}/comments -> ComplaintService.add_comment
add_comment(complaint_id, bearer, fresh, provider) ==
    /\ UNCHANGED <<tokens, clock, SECRET_KEY, inflight>>
    /\ UNCHANGED <<comments, chat_sessions, chat_messages>>
    /\ LET res == get_current_user_from_token(bearer, fresh, provider)
       IN  IF res.status # 200 THEN Rejected("add_comment", res.status, bearer, res)
           ELSE IF ~HasUser(res.claims.sub) \/ ~HasComplaint(complaint_id)
           THEN Rejected("add_comment", 404, bearer, res)
           ELSE /\ Len(complaints[complaint_id].comments) < MaxComments
                /\ complaints' =
                      [complaints EXCEPT ![complaint_id].comments =
                          Append(@, [user_id |-> res.claims.sub, content |-> "c0"])]
                /\ last' = Response("add_comment", 200, bearer, res, NoToken)
                /\ UNCHANGED <<users, posts>>

\* an UpdateComplaintRequest; "" stands for a field left out (None)
UpdateComplaintRequest(title, description, category) ==
    [title |-> title, description |-> description, category |-> category]

\* PUT /complaints/{complaint_id} -> ComplaintService.update_complaint; a
\* refusal of the service becomes 404
update_complaint(complaint_id, request, bearer, fresh, provider) ==
    /\ UNCHANGED <<tokens, clock, SECRET_KEY, inflight>>
    /\ UNCHANGED <<comments, chat_sessions, chat_messages>>
    /\ LET res == get_current_user_from_token(bearer, fresh, provider)
       IN  IF res.status # 200 THEN Rejected("update_complaint", res.status, bearer, res)
           ELSE IF \/ ~HasComplaint(complaint_id)
                   \/ complaints[complaint_id].reporter_id # res.claims.sub
           THEN Rejected("update_complaint", 404, bearer, res)
           ELSE /\ complaints' =
                      [complaints EXCEPT
                         ![complaint_id].title =
                             IF request.title # "" THEN request.title ELSE @,
                         ![complaint_id].description =
                             IF request.description # "" THEN request.description
                             ELSE @,
                         ![complaint_id].category =
                             IF request.category # "" THEN request.category ELSE @]
                /\ last' = Response("update_complaint", 200, bearer, res, NoToken)
                /\ UNCHANGED <<users, posts>>

\* ------------------------------------------------- admin endpoints

\* User.is_admin
is_admin(user) == user.role = "admin"

\* verify_admin without the role check
verify_admin_any(claims) == HasUser(claims.sub)

\* verify_admin deciding on the role in the token (check_admin_role)
verify_admin_claims(claims) == claims.scheme = "local" /\ claims.role = "admin"

\* verify_admin: the stored user of the claims' sub exists and is an admin
verify_admin(claims) == HasUser(claims.sub) /\ is_admin(users[claims.sub])

\* Depends_verify_admin answering "not authenticated" to a caller verify_admin
\* turns away
Depends_verify_admin_unauth(bearer, fresh, provider) ==
    LET res == get_current_user_from_token(bearer, fresh, provider)
    IN  IF res.status = 200 /\ ~verify_admin(res.claims)
        THEN [res EXCEPT !.status = 401]
        ELSE res

\* the dependency every admin endpoint declares: the bearer dependency, then
\* verify_admin; status 200 lets the handler body run, 403 is verify_admin's
Depends_verify_admin(bearer, fresh, provider) ==
    LET res == get_current_user_from_token(bearer, fresh, provider)
    IN  IF res.status = 200 /\ ~verify_admin(res.claims)
        THEN [res EXCEPT !.status = 403]
        ELSE res

\* the endpoints that only read: dashboard, list_users, pending
\* verifications, heatmap, complaints by authority
AdminReadOps == {"get_dashboard", "list_users", "list_pending_verifications",
                 "get_complaint_heatmap", "get_authority_complaints"}

admin_read(op, bearer, fresh, provider) ==
    /\ UNCHANGED <<tokens, clock, SECRET_KEY, inflight>>
    /\ UNCHANGED <<comments, chat_sessions, chat_messages>>
    /\ LET res == Depends_verify_admin(bearer, fresh, provider)
       IN  IF res.status # 200 THEN Rejected(op, res.status, bearer, res)
           ELSE Rejected(op, 200, bearer, res)

\* GET /admin/users/{user_id}
get_user(user_id, bearer, fresh, provider) ==
    /\ UNCHANGED <<tokens, clock, SECRET_KEY, inflight>>
    /\ UNCHANGED <<comments, chat_sessions, chat_messages>>
    /\ LET res == Depends_verify_admin(bearer, fresh, provider)
       IN  IF res.status # 200 THEN Rejected("get_user", res.status, bearer, res)
           ELSE Rejected("get_user", IF HasUser(user_id) THEN 200 ELSE 404, bearer, res)

\* PUT /admin/users/{user_id}/role -> AdminService.update_user_role
update_user_role(user_id, new_role, bearer, fresh, provider) ==
    /\ UNCHANGED <<tokens, clock, SECRET_KEY, inflight>>
    /\ UNCHANGED <<comments, chat_sessions, chat_messages>>
    /\ LET res == Depends_verify_admin(bearer, fresh, provider)
       IN  IF res.status # 200 THEN Rejected("update_user_role", res.status, bearer, res)
           ELSE IF ~HasUser(user_id) THEN Rejected("update_user_role", 404, bearer, res)
           ELSE /\ users' = [users EXCEPT ![user_id].role = new_role]
                /\ last' = Response("update_user_role", 200, bearer, res, NoToken)
                /\ UNCHANGED <<posts, complaints>>

\* PUT /admin/users/{user_id}/toggle-active -> AdminService.toggle_user_active
toggle_user_active(user_id, bearer, fresh, provider) ==
    /\ UNCHANGED <<tokens, clock, SECRET_KEY, inflight>>
    /\ UNCHANGED <<comments, chat_sessions, chat_messages>>
    /\ LET res == Depends_verify_admin(bearer, fresh, provider)
       IN  IF res.status # 200 THEN Rejected("toggle_user_active", res.status, bearer, res)
           ELSE IF ~HasUser(user_id) THEN Rejected("toggle_user_active", 404, bearer, res)
           ELSE /\ users' = [users EXCEPT
                               ![user_id] = set_is_active(@, ~users[user_id].is_active)]
                /\ last' = Response("toggle_user_active", 200, bearer, res, NoToken)
                /\ UNCHANGED <<posts, complaints>>

\* PUT /admin/authorities/{user_id}/verify -> AdminService.verify_authority
verify_authority(user_id, verified, bearer, fresh, provider) ==
    /\ UNCHANGED <<tokens, clock, SECRET_KEY, inflight>>
    /\ UNCHANGED <<comments, chat_sessions, chat_messages>>
    /\ LET res == Depends_verify_admin(bearer, fresh, provider)
       IN  IF res.status # 200 THEN Rejected("verify_authority", res.status, bearer, res)
           ELSE IF ~HasUser(user_id) \/ users[user_id].role # "authority"
           THEN Rejected("verify_authority", 404, bearer, res)
           ELSE /\ users' = [users EXCEPT ![user_id].authority_verified = verified]
                /\ last' = Response("verify_authority", 200, bearer, res, NoToken)
                /\ UNCHANGED <<posts, complaints>>

\* PUT /admin/posts/{post_id}/hide -> AdminService.hide_post
hide_post(post_id, bearer, fresh, provider) ==
    /\ UNCHANGED <<tokens, clock, SECRET_KEY, inflight>>
    /\ UNCHANGED <<comments, chat_sessions, chat_messages>>
    /\ LET res == Depends_verify_admin(bearer, fresh, provider)
       IN  IF res.status # 200 THEN Rejected("hide_post", res.status, bearer, res)
           ELSE IF post_id \notin DOMAIN posts
           THEN Rejected("hide_post", 404, bearer, res)
           ELSE /\ posts' = [posts EXCEPT ![post_id].is_active = FALSE]
                /\ last' = Response("hide_post", 200, bearer, res, NoToken)
                /\ UNCHANGED <<users, complaints>>

\* PUT /admin/complaints/{complaint_id}/hide -> AdminService.hide_complaint
hide_complaint(complaint_id, bearer, fresh, provider) ==
    /\ UNCHANGED <<tokens, clock, SECRET_KEY, inflight>>
    /\ UNCHANGED <<comments, chat_sessions, chat_messages>>
    /\ LET res == Depends_verify_admin(bearer, fresh, provider)
       IN  IF res.status # 200 THEN Rejected("hide_complaint", res.status, bearer, res)
           ELSE IF ~HasComplaint(complaint_id)
           THEN Rejected("hide_complaint", 404, bearer, res)
           ELSE /\ complaints' = [complaints EXCEPT ![complaint_id].is_public = FALSE]
                /\ last' = Response("hide_complaint", 200, bearer, res, NoToken)
                /\ UNCHANGED <<users, posts>>

\* ------------------------------------------- complaint endpoints

\* check_authority_role taking the role for granted whenever one is present
check_authority_role_any(user) == user.role \in Roles

\* check_authority_role(user)
check_authority_role(user) == user.role \in {"authority", "admin"}

\* the guard of update_complaint_status decided on the role in the claims
status_guard_claims(claims) == check_authority_role(claims)

\* the guard of update_complaint_status: the stored user of the claims' sub
\* exists and its stored role passes check_authority_role
status_guard(claims) ==
    HasUser(claims.sub) /\ check_authority_role([role |-> users[claims.sub].role])

\* PUT /complaints/{complaint_id}/status ->
\* ComplaintService.update_complaint_status
update_complaint_status(complaint_id, new_status, bearer, fresh, provider) ==
    /\ UNCHANGED <<tokens, clock, SECRET_KEY, inflight>>
    /\ UNCHANGED <<comments, chat_sessions, chat_messages>>
    /\ LET res == get_current_user_from_token(bearer, fresh, provider)
       IN  IF res.status # 200
           THEN Rejected("update_complaint_status", res.status, bearer, res)
           ELSE IF ~status_guard(res.claims)
           THEN Rejected("update_complaint_status", 403, bearer, res)
           ELSE IF ~HasComplaint(complaint_id)
           THEN Rejected("update_complaint_status", 404, bearer, res)
           ELSE /\ Len(complaints[complaint_id].status_history) < MaxHistory
                /\ complaints' =
                      [complaints EXCEPT
                         ![complaint_id].status = new_status,
                         ![complaint_id].resolved_at =
                             IF new_status = "resolved" THEN clock ELSE @,
                         ![complaint_id].status_history =
                             Append(@, StatusUpdate(new_status, res.claims.sub))]
                /\ last' = Response("update_complaint_status", 200, bearer, res, NoToken)
                /\ UNCHANGED <<users, posts>>

\* ComplaintService.delete_complaint letting any stored user delete
may_delete_any(complaint_id, user_id) == HasComplaint(complaint_id) /\ HasUser(user_id)

\* ComplaintService.delete_complaint up to complaint.delete(): the complaint
\* exists and the caller is its reporter or a stored admin
may_delete(complaint_id, user_id) ==
    /\ HasComplaint(complaint_id)
    /\ \/ complaints[complaint_id].reporter_id = user_id
       \/ HasUser(user_id) /\ is_admin(users[user_id])

\* DELETE /complaints/{complaint_id} -> ComplaintService.delete_complaint
delete_complaint(complaint_id, bearer, fresh, provider) ==
    /\ UNCHANGED <<tokens, clock, SECRET_KEY, inflight>>
    /\ UNCHANGED <<comments, chat_sessions, chat_messages>>
    /\ LET res == get_current_user_from_token(bearer, fresh, provider)
       IN  IF res.status # 200
           THEN Rejected("delete_complaint", res.status, bearer, res)
           ELSE IF ~may_delete(complaint_id, res.claims.sub)
           THEN Rejected("delete_complaint", 404, bearer, res)
           ELSE /\ complaints' = [complaints EXCEPT ![complaint_id] = Deleted]
                /\ last' = Response("delete_complaint", 200, bearer, res, NoToken)
                /\ UNCHANGED <<users, posts>>

\* ------------------------------------------------- chat endpoints

\* the answer of a chat endpoint, which changes no collection but its own
ChatAnswer(op, status, bearer, res) ==
    /\ last' = Response(op, status, bearer, res, NoToken)
    /\ UNCHANGED <<users, posts, complaints, tokens, clock>>

\* POST /chat/sessions -> RAGChatbotService.create_session
create_session(bearer, fresh, provider) ==
    /\ UNCHANGED <<SECRET_KEY, inflight, comments, chat_messages>>
    /\ LET res == get_current_user_from_token(bearer, fresh, provider)
       IN  IF res.status # 200
           THEN ChatAnswer("create_session", res.status, bearer, res)
                /\ UNCHANGED chat_sessions
           ELSE /\ Len(chat_sessions) < MaxSessions
                /\ chat_sessions' = Append(chat_sessions,
                                           [user_id |-> res.claims.sub,
                                            title |-> "New Chat",
                                            is_active |-> TRUE,
                                            message_count |-> 0])
                /\ ChatAnswer("create_session", 200, bearer, res)

\* RAGChatbotService.get_session: the session, if it is stored and its
\* user_id is the caller's; None otherwise
get_session(session_id, user_id) ==
    IF session_id \in DOMAIN chat_sessions
       /\ chat_sessions[session_id].user_id = user_id
    THEN chat_sessions[session_id]
    ELSE NoRequest

\* GET /chat/sessions/{session_id} and GET .../messages: "Session not
\* found" (404) unless get_session finds the session
read_session(op, session_id, bearer, fresh, provider) ==
    /\ UNCHANGED <<SECRET_KEY, inflight, comments, chat_sessions, chat_messages>>
    /\ LET res == get_current_user_from_token(bearer, fresh, provider)
       IN  IF res.status # 200 THEN ChatAnswer(op, res.status, bearer, res)
           ELSE IF get_session(session_id, res.claims.sub) = NoRequest
           THEN ChatAnswer(op, 404, bearer, res)
           ELSE ChatAnswer(op, 200, bearer, res)

\* POST /chat/sessions/{session_id}/messages -> RAGChatbotService.chat: the
\* user message and the assistant message are inserted and the session is
\* saved with message_count += 2 (and the title, after the first exchange)
chat(session_id, content, bearer, fresh, provider) ==
    /\ UNCHANGED <<SECRET_KEY, inflight, comments>>
    /\ LET res == get_current_user_from_token(bearer, fresh, provider)
           session == get_session(session_id, res.claims.sub)
       IN  IF res.status # 200
           THEN ChatAnswer("chat", res.status, bearer, res)
                /\ UNCHANGED <<chat_sessions, chat_messages>>
           ELSE IF session = NoRequest
           THEN ChatAnswer("chat", 404, bearer, res)
                /\ UNCHANGED <<chat_sessions, chat_messages>>
           ELSE /\ Len(chat_messages) + 2 <= MaxMessages
                /\ chat_messages' = chat_messages \o
                      <<[session_id |-> session_id, role |-> "user",
                         content |-> content],
                        [session_id |-> session_id, role |-> "assistant",
                         content |-> "answer"]>>
                /\ chat_sessions' = [chat_sessions EXCEPT ![session_id] =
                      [session EXCEPT !.message_count = @ + 2,
                                      !.title = IF session.message_count + 2 = 2
                                                THEN content ELSE @]]
                /\ ChatAnswer("chat", 200, bearer, res)

\* DELETE /chat/sessions/{session_id} -> RAGChatbotService.delete_session
delete_session(session_id, bearer, fresh, provider) ==
    /\ UNCHANGED <<SECRET_KEY, inflight, comments, chat_messages>>
    /\ LET res == get_current_user_from_token(bearer, fresh, provider)
           session == get_session(session_id, res.claims.sub)
       IN  IF res.status # 200
           THEN ChatAnswer("delete_session", res.status, bearer, res)
                /\ UNCHANGED chat_sessions
           ELSE IF session = NoRequest
           THEN ChatAnswer("delete_session", 404, bearer, res)
                /\ UNCHANGED chat_sessions
           ELSE /\ chat_sessions' = [chat_sessions EXCEPT ![session_id] =
                                        [session EXCEPT !.is_active = FALSE]]
                /\ ChatAnswer("delete_session", 200, bearer, res)

\* --------------------- the sign-up handlers, one store operation a step
\*
\* register_user and firebase_auth await the store several times; between
\* two awaits other requests run.  Each step below is one awaited store
\* operation with the code up to the next one.  A handler keeps the document
\* it read in a local variable (user) and save() writes that whole document.

\* the local variables of a handler at an await
Request(op, pc, data, username, counter, id, user) ==
    [op |-> op, pc |-> pc, data |-> data, username |-> username,
     counter |-> counter, id |-> id, user |-> user]

\* the handler in slot s goes on to its next await, or ends
Goto(s, req) ==
    /\ inflight' = [inflight EXCEPT ![s] = req]
    /\ UNCHANGED <<users, last>>
Finish(s, op, status, data, issued) ==
    /\ inflight' = [inflight EXCEPT ![s] = NoRequest]
    /\ last' = Response(op, status, NoToken, [claims |-> data, fb |-> "skipped"], issued)

\* the document collides with a stored one on email or on username, the
\* fields declared Indexed(unique=True)
Collides(doc) ==
    find_by_email(doc.email) # {} \/ find_by_username(doc.username) # {}

\* user.insert(): the store's answer.  The same two fields are listed once
\* more, as plain indexes, in User.Settings.indexes; whether the index the
\* store ends up with is unique is up to the driver, so an insert that
\* collides either raises DuplicateKeyError (enforced) or goes through
InsertRaises(doc, enforced) == enforced /\ Collides(doc)

\* register_user: User.find_one(User.email == request.email)
reg_find_email(s, email, password, username) ==
    /\ inflight[s] = NoRequest
    /\ UNCHANGED <<posts, complaints, tokens, clock, SECRET_KEY>>
    /\ UNCHANGED <<comments, chat_sessions, chat_messages>>
    /\ IF find_by_email(email) # {}
       THEN Finish(s, "register", 400, NoClaims, NoToken) /\ UNCHANGED users
       ELSE Goto(s, Request("register", "find_username", [email |-> email],
                            username, 0, 0, signup_user(email, password, username)))

\* register_user: User.find_one(User.username == request.username)
reg_find_username(s) ==
    /\ inflight[s] # NoRequest
    /\ inflight[s].op = "register" /\ inflight[s].pc = "find_username"
    /\ UNCHANGED <<posts, complaints, tokens, clock, SECRET_KEY>>
    /\ UNCHANGED <<comments, chat_sessions, chat_messages>>
    /\ IF find_by_username(<<inflight[s].username, 0>>) # {}
       THEN Finish(s, "register", 400, NoClaims, NoToken) /\ UNCHANGED users
       ELSE Goto(s, [inflight[s] EXCEPT !.pc = "insert"])

\* register_user: user.insert(), then the token
reg_insert(s, enforced, fresh) ==
    /\ inflight[s] # NoRequest
    /\ inflight[s].op = "register" /\ inflight[s].pc = "insert"
    /\ UNCHANGED <<posts, complaints, tokens, clock, SECRET_KEY>>
    /\ UNCHANGED <<comments, chat_sessions, chat_messages>>
    /\ LET doc == inflight[s].user
       IN  IF InsertRaises(doc, enforced)
           THEN Finish(s, "register", 500, NoClaims, NoToken) /\ UNCHANGED users
           ELSE /\ NewId <= MaxUsers
                /\ users' = Insert(NewId, doc)
                /\ Finish(s, "register", 200, NoClaims,
                          create_access_token(token_data(NewId, doc), fresh))

\* firebase_auth: verify_firebase_token, then
\* User.find_one(User.firebase_uid == firebase_uid)
fb_find_uid(s, firebase_token, username, provider) ==
    /\ inflight[s] = NoRequest
    /\ UNCHANGED <<posts, complaints, tokens, clock, SECRET_KEY>>
    /\ UNCHANGED <<comments, chat_sessions, chat_messages>>
    /\ LET firebase_data == verify_firebase_token(firebase_token, provider).val
           by_uid == find_by_firebase_uid(firebase_data.uid)
       IN  IF firebase_data = NoClaims
           THEN Finish(s, "firebase_auth", 401, NoClaims, NoToken) /\ UNCHANGED users
           ELSE IF by_uid # {}
           THEN \E i \in by_uid :
                   Goto(s, Request("firebase_auth", "save", firebase_data, username,
                                   0, i, users[i]))
           ELSE Goto(s, Request("firebase_auth", "find_email", firebase_data, username,
                                0, 0, NoRequest))

\* firebase_auth: User.find_one(User.email == email); the user found is
\* linked in memory, else the username of the new account is worked out
fb_find_email(s) ==
    /\ inflight[s] # NoRequest
    /\ inflight[s].op = "firebase_auth" /\ inflight[s].pc = "find_email"
    /\ UNCHANGED <<posts, complaints, tokens, clock, SECRET_KEY>>
    /\ UNCHANGED <<comments, chat_sessions, chat_messages>>
    /\ LET req == inflight[s]
           by_email == find_by_email(req.data.email)
           exc == create_federated(req.data, req.username)
       IN  IF by_email # {}
           THEN \E i \in by_email :
                   Goto(s, [req EXCEPT !.pc = "link", !.id = i,
                               !.user = link_firebase_uid(users[i], req.data.uid)])
           ELSE IF exc # ""
           THEN /\ Finish(s, "firebase_auth", IF exc = "ValueError" THEN 401 ELSE 500,
                          req.data, NoToken)
                /\ UNCHANGED users
           ELSE Goto(s, [req EXCEPT !.pc = "find_username",
                            !.username = IF req.username # "" THEN req.username
                                         ELSE req.data.email[1]])

\* firebase_auth: user.save() of the linked user
fb_link(s) ==
    /\ inflight[s] # NoRequest
    /\ inflight[s].op = "firebase_auth" /\ inflight[s].pc = "link"
    /\ UNCHANGED <<posts, complaints, tokens, clock, SECRET_KEY, last>>
    /\ UNCHANGED <<comments, chat_sessions, chat_messages>>
    /\ users' = Insert(inflight[s].id, inflight[s].user)
    /\ inflight' = [inflight EXCEPT ![s].pc = "save"]

\* firebase_auth: one round of while await User.find_one(User.username ==
\* username)
fb_find_username(s) ==
    /\ inflight[s] # NoRequest
    /\ inflight[s].op = "firebase_auth" /\ inflight[s].pc = "find_username"
    /\ UNCHANGED <<posts, complaints, tokens, clock, SECRET_KEY>>
    /\ UNCHANGED <<comments, chat_sessions, chat_messages>>
    /\ LET req == inflight[s]
       IN  IF find_by_username(<<req.username, req.counter>>) # {}
           THEN Goto(s, [req EXCEPT !.counter = @ + 1])
           ELSE Goto(s, [req EXCEPT !.pc = "insert",
                            !.user = User(req.data.email, req.data.uid, NoHash,
                                          <<req.username, req.counter>>, "citizen")])

\* firebase_auth: user.insert()
fb_insert(s, enforced) ==
    /\ inflight[s] # NoRequest
    /\ inflight[s].op = "firebase_auth" /\ inflight[s].pc = "insert"
    /\ UNCHANGED <<posts, complaints, tokens, clock, SECRET_KEY>>
    /\ UNCHANGED <<comments, chat_sessions, chat_messages>>
    /\ LET req == inflight[s]
       IN  IF InsertRaises(req.user, enforced)
           THEN Finish(s, "firebase_auth", 500, req.data, NoToken) /\ UNCHANGED users
           ELSE /\ NewId <= MaxUsers
                /\ users' = Insert(NewId, req.user)
                /\ inflight' = [inflight EXCEPT ![s].pc = "save", ![s].id = NewId]
                /\ UNCHANGED last

\* firebase_auth: user.last_login = ...; user.save(), then the token
fb_save(s, fresh) ==
    /\ inflight[s] # NoRequest
    /\ inflight[s].op = "firebase_auth" /\ inflight[s].pc = "save"
    /\ UNCHANGED <<posts, complaints, tokens, clock, SECRET_KEY>>
    /\ UNCHANGED <<comments, chat_sessions, chat_messages>>
    /\ LET req == inflight[s]
       IN  /\ users' = Insert(req.id, update_last_login(req.user))
           /\ Finish(s, "firebase_auth", 200, req.data,
                     create_access_token(token_data(req.id, req.user), fresh))

\* ------------------- follow_user and unfollow_user, one await at a step

\* follow_user appends x unless it is in the list, unfollow_user removes it
\* if it is; the document is saved only when the list changed
Changes(op, list, x) == IF op = "follow_user" THEN ~In(x, list) ELSE In(x, list)
Changed(op, list, x) == IF op = "follow_user" THEN Append(list, x) ELSE Remove(list, x)

\* the handler's local variables: the two ids and the two documents read
FollowRequest(op, pc, claims, target_user_id, user, target) ==
    [op |-> op, pc |-> pc, claims |-> claims, user_id |-> claims.sub,
     target_user_id |-> target_user_id, user |-> user, target |-> target]

\* User.get(ObjectId(id)): the document, or None
Get(id) == IF HasUser(id) THEN users[id] ELSE NoRequest

\* POST /community/users/{user_id}/follow and /unfollow: the bearer
\* dependency, the self-follow check of follow_user and User.get(user_id)
follow_get_user(s, op, bearer, target_user_id) ==
    /\ inflight[s] = NoRequest
    /\ UNCHANGED <<posts, complaints, tokens, clock, SECRET_KEY>>
    /\ UNCHANGED <<comments, chat_sessions, chat_messages>>
    /\ UNCHANGED users
    /\ LET res == get_current_user_from_token(bearer, "d1", "ok")
       IN  IF res.status # 200 THEN Finish(s, op, res.status, res.claims, NoToken)
           ELSE IF op = "follow_user" /\ res.claims.sub = target_user_id
           THEN Finish(s, op, 400, res.claims, NoToken)
           ELSE /\ inflight' = [inflight EXCEPT ![s] =
                       FollowRequest(op, "get_target", res.claims, target_user_id,
                                     Get(res.claims.sub), NoRequest)]
                /\ UNCHANGED last

\* the part of the handler after a save of the user document: the followers
\* of the target read earlier are changed in memory, or the handler ends
follow_target(s, req) ==
    IF Changes(req.op, req.target.followers, req.user_id)
    THEN /\ inflight' = [inflight EXCEPT ![s] =
                [req EXCEPT !.pc = "save_target",
                            !.target.followers = Changed(req.op, @, req.user_id)]]
         /\ UNCHANGED last
    ELSE Finish(s, req.op, 200, req.claims, NoToken)

\* User.get(target_user_id), the check for None, and the change of
\* user.following in memory
follow_get_target(s) ==
    /\ inflight[s] # NoRequest
    /\ inflight[s].op \in {"follow_user", "unfollow_user"}
    /\ inflight[s].pc = "get_target"
    /\ UNCHANGED <<posts, complaints, tokens, clock, SECRET_KEY>>
    /\ UNCHANGED <<comments, chat_sessions, chat_messages>>
    /\ UNCHANGED users
    /\ LET req == [inflight[s] EXCEPT !.target = Get(inflight[s].target_user_id)]
       IN  IF req.user = NoRequest \/ req.target = NoRequest
           THEN Finish(s, req.op, 400, req.claims, NoToken)
           ELSE IF Changes(req.op, req.user.following, req.target_user_id)
           THEN /\ inflight' = [inflight EXCEPT ![s] =
                       [req EXCEPT !.pc = "save_user",
                                   !.user.following =
                                       Changed(req.op, @, req.target_user_id)]]
                /\ UNCHANGED last
           ELSE follow_target(s, req)

\* await user.save(): the whole document read earlier is written back
follow_save_user(s) ==
    /\ inflight[s] # NoRequest
    /\ inflight[s].op \in {"follow_user", "unfollow_user"}
    /\ inflight[s].pc = "save_user"
    /\ UNCHANGED <<posts, complaints, tokens, clock, SECRET_KEY>>
    /\ UNCHANGED <<comments, chat_sessions, chat_messages>>
    /\ users' = Insert(inflight[s].user_id, inflight[s].user)
    /\ follow_target(s, inflight[s])

\* await target.save(), and the answer
follow_save_target(s) ==
    /\ inflight[s] # NoRequest
    /\ inflight[s].op \in {"follow_user", "unfollow_user"}
    /\ inflight[s].pc = "save_target"
    /\ UNCHANGED <<posts, complaints, tokens, clock, SECRET_KEY>>
    /\ UNCHANGED <<comments, chat_sessions, chat_messages>>
    /\ users' = Insert(inflight[s].target_user_id, inflight[s].target)
    /\ Finish(s, inflight[s].op, 200, inflight[s].claims, NoToken)

\* time passes between requests, by a token lifetime or a minute more; the
\* clock has advanced TicksTaken times so far
TicksTaken == clock \div ACCESS_TOKEN_EXPIRE_MINUTES

Tick ==
    /\ TicksTaken < MaxTicks
    /\ \E d \in {ACCESS_TOKEN_EXPIRE_MINUTES, ACCESS_TOKEN_EXPIRE_MINUTES + 1} :
          clock' = clock + d
    /\ last' = Idle
    /\ UNCHANGED <<users, posts, complaints, tokens, SECRET_KEY, inflight>>
    /\ UNCHANGED <<comments, chat_sessions, chat_messages>>

\* the values that matter for the key generated in one call: none when the
\* key is configured
FreshKeys == IF SECRET_KEY = "" THEN DevKeys ELSE {"d1"}

\* the ids a request can name: every stored one and one that is not stored
UserIdInputs == DOMAIN users \cup {NewId}

\* ------------------------------------------------------------------------
\* Spec: one account (e-mail a@x: the seeded administrator, or whoever signs
\* up with it), every endpoint modelled, the signing key configured; no time
\* passes.
\* ------------------------------------------------------------------------
OneEmail == <<"a", "x">>
OneFirebaseToken == [kind |-> "firebase", uid |-> 101, email |-> OneEmail, role |-> ""]
Callers == tokens \cup {OneFirebaseToken}

Next ==
    \/ \E k \in FreshKeys : register_user(OneEmail, "pw", "a", k)
    \/ \E pw \in Passwords, k \in FreshKeys : login_user(OneEmail, pw, k)
    \/ \E pw \in Passwords, k \in FreshKeys : admin_login(OneEmail, pw, k)
    \/ \E b \in {OneFirebaseToken, Garbage}, k \in FreshKeys : firebase_auth(b, "", "ok", k)
    \/ \E b \in Callers, k \in FreshKeys : update_profile(b, k, "ok")
    \/ \E b \in Callers, k \in FreshKeys : deactivate_account(b, k, "ok")
    \/ \E b \in Callers, k \in FreshKeys : create_post(PlainPost, b, k, "ok")
    \/ \E b \in Callers, k \in FreshKeys : create_complaint(b, TRUE, k, "ok")
    \/ \E b \in Callers, k \in FreshKeys, op \in {"get_dashboard", "list_users"} :
          admin_read(op, b, k, "ok")
    \/ \E b \in Callers, k \in FreshKeys, i \in UserIdInputs : get_user(i, b, k, "ok")
    \/ \E b \in Callers, k \in FreshKeys, i \in UserIdInputs, r \in Roles :
          update_user_role(i, r, b, k, "ok")
    \/ \E b \in Callers, k \in FreshKeys, i \in UserIdInputs :
          toggle_user_active(i, b, k, "ok")
    \/ \E b \in Callers, k \in FreshKeys, i \in UserIdInputs, v \in BOOLEAN :
          verify_authority(i, v, b, k, "ok")
    \/ \E b \in Callers, k \in FreshKeys, i \in 1 .. MaxPosts : hide_post(i, b, k, "ok")
    \/ \E b \in Callers, k \in FreshKeys, i \in 1 .. MaxComplaints :
          hide_complaint(i, b, k, "ok")

\* a process started with SECRET_KEY set
InitConfigured ==
    /\ Init
    /\ SECRET_KEY # ""

Spec == InitConfigured /\ [][Next]_vars

\* ------------------------------------------------------------------------
\* SpecTwo: two accounts, the seeded administrator and whoever signs up, and
\* the endpoints a role change involves; the signing key is configured.
\* ------------------------------------------------------------------------
InitTwo ==
    /\ InitConfigured
    /\ users = <<SeedAdmin>>

NextTwo ==
    \/ register_user(<<"a", "y">>, "pw", "b", "d1")
    \/ \E e \in Emails : login_user(e, "pw", "d1")
    \/ \E e \in Emails : admin_login(e, "pw", "d1")
    \/ \E b \in tokens : deactivate_account(b, "d1", "ok")
    \/ \E b \in tokens : admin_read("get_dashboard", b, "d1", "ok")
    \/ \E b \in tokens, i \in DOMAIN users, r \in Roles :
          update_user_role(i, r, b, "d1", "ok")

SpecTwo == InitTwo /\ [][NextTwo]_vars

\* ------------------------------------------------------------------------
\* SpecComplaints: two accounts, the seeded administrator and whoever signs
\* up; the signed-up account files complaints and deactivates itself, the
\* administrator changes its role, and both change the status of the first
\* complaint.
\* A bearer that resolves under neither scheme and a federated token with a
\* role among its custom claims are presented to the guarded endpoints, with
\* the provider working or not.
\* ------------------------------------------------------------------------
AdminFirebaseToken ==
    [kind |-> "firebase", uid |-> 102, email |-> <<"a", "y">>, role |-> "admin"]

Clients == tokens \cup {AdminFirebaseToken, Garbage}

\* the statuses requests ask for here
StatusInputs == {"resolved"}

\* the complaint ids a request can name, stored or not
ComplaintIdInputs == 1 .. MaxComplaints

NextComplaints ==
    \/ register_user(<<"a", "y">>, "pw", "b", "d1")
    \/ \E e \in Emails : login_user(e, "pw", "d1")
    \/ \E b \in Held(2) : deactivate_account(b, "d1", "ok")
    \/ \E b \in tokens, r \in Roles : update_user_role(2, r, b, "d1", "ok")
    \/ \E b \in Held(2) : create_complaint(b, TRUE, "d1", "ok")
    \/ \E b \in Clients, p \in ProviderOutcomes, st \in StatusInputs :
          update_complaint_status(1, st, b, "d1", p)
    \/ \E b \in Clients : admin_read("get_dashboard", b, "d1", "ok")
    \/ \E i \in ComplaintIdInputs : delete_complaint(i, AdminFirebaseToken, "d1", "ok")

SpecComplaints == InitTwo /\ [][NextComplaints]_vars

\* ------------------------------------------------------------------------
\* SpecDelete: the same two accounts, both filing complaints and both asking
\* to delete them, with the administrator changing the other account's role.
\* ------------------------------------------------------------------------
NextDelete ==
    \/ register_user(<<"a", "y">>, "pw", "b", "d1")
    \/ \E e \in Emails : login_user(e, "pw", "d1")
    \/ \E b \in tokens, r \in Roles : update_user_role(2, r, b, "d1", "ok")
    \/ \E b \in tokens : create_complaint(b, TRUE, "d1", "ok")
    \/ \E b \in Clients, i \in ComplaintIdInputs : delete_complaint(i, b, "d1", "ok")

SpecDelete == InitTwo /\ [][NextDelete]_vars

\* ------------------------------------------------------------------------
\* SpecFederated: an empty store; accounts are made by registration and by
\* federated login, with and without a requested username, for federated
\* identities with and without an e-mail address.
\* ------------------------------------------------------------------------
PhoneFirebaseToken == [kind |-> "firebase", uid |-> 103, email |-> NoEmail, role |-> ""]

FederatedInputs == FirebaseTokens \cup {PhoneFirebaseToken}

InitFederated ==
    /\ InitConfigured
    /\ users = <<>>

NextFederated ==
    \/ \E e \in Emails, u \in {"a", "b"} : register_user(e, "pw", u, "d1")
    \/ \E t \in FederatedInputs \cup {Garbage}, u \in {"", "a"},
          p \in {"ok", "unreachable"} : firebase_auth(t, u, p, "d1")
    \/ \E b \in tokens : update_profile(b, "d1", "ok")
    \/ \E b \in tokens \cup {Garbage, NoToken} : verify_token(b)

SpecFederated == InitFederated /\ [][NextFederated]_vars

\* ------------------------------------------------------------------------
\* SpecOwner: the administrator writing posts, one registered citizen
\* commenting on the first of them and filing complaints, and every client
\* asking to change or delete every one of these documents.
\* ------------------------------------------------------------------------
PostEdits == {UpdatePostRequest("c1", "")}
ComplaintEdits == {UpdateComplaintRequest("t1", "", "")}

\* the administrator and a citizen who has registered
InitOwner ==
    /\ users = <<SeedAdmin, signup_user(<<"a", "y">>, "pw", "b")>>
    /\ posts = <<>> /\ complaints = <<>> /\ comments = <<>>
    /\ chat_sessions = <<>> /\ chat_messages = <<>>
    /\ tokens = {}
    /\ clock = 0
    /\ SECRET_KEY = "k0"
    /\ last = Idle
    /\ inflight = [s \in Slots |-> NoRequest]

NextOwner ==
    \/ \E e \in Emails : login_user(e, "pw", "d1")
    \/ \E b \in Held(1) : create_post(PlainPost, b, "d1", "ok")
    \/ \E b \in Held(2) : create_comment(1, b, "d1", "ok")
    \/ \E b \in Held(2) : create_complaint(b, TRUE, "d1", "ok")
    \/ \E b \in Clients, i \in 1 .. MaxPosts, r \in PostEdits :
          update_post(i, r, b, "d1", "ok")
    \/ \E b \in Clients, i \in 1 .. MaxPosts : delete_post(i, b, "d1", "ok")
    \/ \E b \in Clients, i \in 1 .. MaxComments : delete_comment(i, b, "d1", "ok")
    \/ \E b \in Clients, i \in ComplaintIdInputs, r \in ComplaintEdits :
          update_complaint(i, r, b, "d1", "ok")

SpecOwner == InitOwner /\ [][NextOwner]_vars

\* ------------------------------------------------------------------------
\* SpecFollow: the administrator and a registered citizen; the follow and
\* unfollow requests of the administrator's client are handled at the same
\* time, each one store operation at a step.
\* ------------------------------------------------------------------------
NextFollow ==
    \/ login_user(OneEmail, "pw", "d1")
    \/ \E s \in Slots, op \in {"follow_user", "unfollow_user"}, b \in tokens,
          i \in UserIdInputs : follow_get_user(s, op, b, i)
    \/ \E s \in Slots : follow_get_target(s)
    \/ \E s \in Slots : follow_save_user(s)
    \/ \E s \in Slots : follow_save_target(s)

SpecFollow == InitOwner /\ [][NextFollow]_vars

\* ------------------------------------------------------------------------
\* SpecPoll: the administrator and a registered citizen, polls with two
\* options that end after a day or never, and votes for the options and for
\* an option id no poll has, before and after the end of the poll.
\* ------------------------------------------------------------------------
PollRequests == {CreatePostRequest("poll", <<"yes", "no">>, h) : h \in {0, 24}}
OptionIdInputs == 1 .. 3

NextPoll ==
    \/ \E e \in Emails : login_user(e, "pw", "d1")
    \/ \E b \in tokens, r \in PollRequests \cup {PlainPost} : create_post(r, b, "d1", "ok")
    \/ \E b \in tokens \cup {Garbage}, i \in 1 .. MaxPosts, o \in OptionIdInputs :
          vote_poll(i, o, b, "d1", "ok")
    \/ Tick

SpecPoll == InitOwner /\ [][NextPoll]_vars

\* ------------------------------------------------------------------------
\* SpecStatus: the administrator and a registered citizen who files
\* complaints; the complaints are edited, upvoted, commented on and hidden,
\* and their status is set to resolved and back to in_progress.
\* ------------------------------------------------------------------------
ReopenInputs == {"resolved", "in_progress"}

NextStatus ==
    \/ \E e \in Emails : login_user(e, "pw", "d1")
    \/ \E b \in Held(2) : create_complaint(b, TRUE, "d1", "ok")
    \/ \E b \in tokens, i \in ComplaintIdInputs, st \in ReopenInputs :
          update_complaint_status(i, st, b, "d1", "ok")
    \/ \E b \in Held(2), i \in ComplaintIdInputs, r \in ComplaintEdits :
          update_complaint(i, r, b, "d1", "ok")
    \/ \E b \in tokens, i \in ComplaintIdInputs : upvote_complaint(i, b, "d1", "ok")
    \/ \E b \in Held(2), i \in ComplaintIdInputs : add_comment(i, b, "d1", "ok")
    \/ \E b \in Held(1), i \in ComplaintIdInputs : hide_complaint(i, b, "d1", "ok")

SpecStatus == InitOwner /\ [][NextStatus]_vars

\* ------------------------------------------------------------------------
\* SpecChat: the administrator and a registered citizen opening chat
\* sessions, and every client reading, writing to and deleting every session.
\* ------------------------------------------------------------------------
SessionIdInputs == 1 .. MaxSessions

NextChat ==
    \/ \E e \in Emails : login_user(e, "pw", "d1")
    \/ \E b \in tokens \cup {Garbage} : create_session(b, "d1", "ok")
    \/ \E b \in tokens, i \in SessionIdInputs,
          op \in {"get_session", "get_session_messages"} :
          read_session(op, i, b, "d1", "ok")
    \/ \E b \in tokens \cup {Garbage}, i \in SessionIdInputs : chat(i, "hello", b, "d1", "ok")
    \/ \E b \in tokens \cup {Garbage}, i \in SessionIdInputs :
          delete_session(i, b, "d1", "ok")

SpecChat == InitOwner /\ [][NextChat]_vars

\* ------------------------------------------------------------------------
\* SpecVerify: the administrator and a registered citizen, logged in; roles
\* are changed and accounts verified or unverified as authorities.
\* ------------------------------------------------------------------------
NextVerify ==
    \/ \E pw \in Passwords : admin_login(OneEmail, pw, "d1")
    \/ \E e \in Emails : login_user(e, "pw", "d1")
    \/ \E b \in tokens, i \in DOMAIN users, r \in Roles :
          update_user_role(i, r, b, "d1", "ok")
    \/ \E b \in tokens \cup {Garbage}, i \in UserIdInputs, v \in BOOLEAN :
          verify_authority(i, v, b, "d1", "ok")
    \/ \E b \in tokens : admin_read("list_pending_verifications", b, "d1", "ok")

SpecVerify == InitOwner /\ [][NextVerify]_vars

\* ------------------------------------------------------------------------
\* SpecRace: an empty store and sign-up requests, registrations and federated
\* logins, handled at the same time, each one store operation at a step.
\* The federated tokens are of one provider account (uid 101) whose e-mail
\* address was changed from a@x to a@y.
\* ------------------------------------------------------------------------
RaceTokens ==
    {[kind |-> "firebase", uid |-> 101, email |-> e, role |-> ""] : e \in Emails}

NextRace ==
    \/ \E s \in Slots, e \in Emails, u \in {"a", "b"} : reg_find_email(s, e, "pw", u)
    \/ \E s \in Slots : reg_find_username(s)
    \/ \E s \in Slots, enforced \in BOOLEAN : reg_insert(s, enforced, "d1")
    \/ \E s \in Slots, t \in RaceTokens, u \in {"", "b"} : fb_find_uid(s, t, u, "ok")
    \/ \E s \in Slots : fb_find_email(s)
    \/ \E s \in Slots : fb_link(s)
    \/ \E s \in Slots : fb_find_username(s)
    \/ \E s \in Slots, enforced \in BOOLEAN : fb_insert(s, enforced)
    \/ \E s \in Slots : fb_save(s, "d1")

SpecRace == InitFederated /\ [][NextRace]_vars

\* ------------------------------------------------------------------------
\* SpecSession: one account, the endpoints that issue session tokens and
\* those that change the account, with time passing, the signing key
\* configured or not, forged tokens and a failing provider.
\* ------------------------------------------------------------------------
Presented == tokens \cup {OneFirebaseToken, Forged}

NextSession ==
    \/ \E k \in FreshKeys : register_user(OneEmail, "pw", "a", k)
    \/ \E pw \in Passwords, k \in FreshKeys : login_user(OneEmail, pw, k)
    \/ \E pw \in Passwords, k \in FreshKeys : admin_login(OneEmail, pw, k)
    \/ \E b \in {OneFirebaseToken, Garbage}, p \in ProviderOutcomes, k \in FreshKeys :
          firebase_auth(b, "", p, k)
    \/ \E b \in Presented, k \in FreshKeys, p \in {"ok", "unreachable"} :
          update_profile(b, k, p)
    \/ \E b \in tokens, k \in FreshKeys : admin_read("get_dashboard", b, k, "ok")
    \/ \E b \in tokens, k \in FreshKeys : deactivate_account(b, k, "ok")
    \/ \E b \in tokens, k \in FreshKeys, r \in Roles :
          update_user_role(1, r, b, k, "ok")
    \/ Tick

SpecSession == Init /\ [][NextSession]_vars

\* ------------------------------------------------------------------------
\* Properties
\* ------------------------------------------------------------------------

\* the operations of the admin router
AdminOps == AdminReadOps \cup {"get_user", "update_user_role", "toggle_user_active",
                               "verify_authority", "hide_post", "hide_complaint"}

\* the caller the response's claims name owns a stored user document
CallerStored == last'.claims.scheme # "none" /\ last'.claims.sub \in DOMAIN users

\* C1: every user document that register_user or firebase_auth inserts has
\* role citizen; no sign-up path inserts an admin.
C1_SignupInsertsCitizen ==
    [][\A i \in DOMAIN users' \ DOMAIN users :
          /\ last'.op \in {"register", "firebase_auth"}
          /\ users'[i].role = "citizen"]_vars

\* a federated identity has just been given a new account
C1_Witness ==
    /\ last.op = "firebase_auth"
    /\ last.status = 200
    /\ \E i \in DOMAIN users :
          /\ users[i].password_hash = NoHash
          /\ users[i].firebase_uid = 101
          /\ users[i].role = "citizen"

NoAdminStored == \A i \in DOMAIN users : users[i].role # "admin"

\* C2: a stored role changes only in an update_user_role step whose caller
\* was an admin in the store when the request arrived; every other step
\* leaves every stored role unchanged, so a store without an admin never
\* gets one.
C2_RoleChangesOnlyByAdmin ==
    /\ [][(\E i \in DOMAIN users : users'[i].role # users[i].role)
            => /\ last'.op = "update_user_role"
               /\ last'.status = 200
               /\ CallerStored
               /\ users[last'.claims.sub].role = "admin"]_vars
    /\ (NoAdminStored => []NoAdminStored)

\* an admin has just changed a stored role
C2_Witness ==
    /\ last.op = "update_user_role"
    /\ last.status = 200
    /\ \E i \in DOMAIN users : users[i].role = "authority"

\* C3: an operation of the admin router runs its handler (200, or 404 from
\* the handler) if and only if the stored user the resolved claims name has
\* role admin; any other resolved caller gets 403 and no document changes.
C3_AdminRouterIffAdmin ==
    [][(last'.op \in AdminOps /\ last'.claims.scheme # "none")
         => LET admin == CallerStored /\ users[last'.claims.sub].role = "admin"
            IN  /\ admin => last'.status \in {200, 404}
                /\ ~admin => /\ last'.status = 403
                             /\ UNCHANGED <<users, posts, complaints>>]_vars

\* an authority has just been refused by the admin router
C3_Witness ==
    /\ last.op = "hide_post"
    /\ last.status = 403
    /\ last.claims.scheme = "local"
    /\ users[last.claims.sub].role = "authority"
    /\ \E i \in DOMAIN posts : posts[i].is_active

\* C4: the admin guard refuses every request made as a user whose is_active
\* is false.
C4_InactiveAdminDenied ==
    [][(/\ last'.op \in AdminOps
        /\ CallerStored
        /\ ~users[last'.claims.sub].is_active) => last'.status = 403]_vars

\* C5 as stated: a token issued to a citizen is refused by the admin guard
\* after the user's stored role became admin.
C5_StaleCitizenTokenDenied ==
    [][(/\ last'.op \in AdminOps
        /\ last'.claims.scheme = "local"
        /\ last'.claims.role = "citizen"
        /\ users[last'.claims.sub].role = "admin") => last'.status = 403]_vars

\* C5 amended: a token issued to a citizen, resolved again after the user's
\* stored role became admin, passes the admin guard: the decision follows the
\* stored role, not the role in the token.
C5_GuardFollowsStoredRole ==
    [][(/\ last'.op \in AdminOps
        /\ last'.claims.scheme = "local"
        /\ last'.claims.role = "citizen"
        /\ users[last'.claims.sub].role = "admin") => last'.status = 200]_vars

\* a token that says citizen has just passed the admin guard
C5_Witness ==
    /\ last.op = "get_dashboard"
    /\ last.status = 200
    /\ last.claims.scheme = "local"
    /\ last.claims.role = "citizen"
    /\ users[last.claims.sub].role = "admin"

\* C6 as stated: a session token a client holds resolves, at every moment
\* before its exp, to Local Claims with the sub, email and role it was issued
\* with, whatever happened to the user in between.
C6_IssuedTokenResolvesUnchanged ==
    (last.bearer \in tokens /\ clock < last.bearer.exp)
        => /\ last.claims.scheme = "local"
           /\ last.claims.sub = last.bearer.sub
           /\ last.claims.email = last.bearer.email
           /\ last.claims.role = last.bearer.role

\* C7: resolution is ordered, local first: Local Claims are returned without
\* calling the provider, a token local validation accepts is resolved as
\* Local Claims, and Federated Claims are returned only for a token local
\* validation rejected.
C7_LocalFirst ==
    last.bearer # NoToken
        => /\ last.claims.scheme = "local" => last.fb = "skipped"
           /\ (\A k \in FreshKeys : decode_access_token(last.bearer, k) # NoClaims)
                 => last.claims.scheme = "local"
           /\ last.claims.scheme = "federated"
                 => /\ last.fb = "verified"
                    /\ \A k \in FreshKeys : decode_access_token(last.bearer, k) = NoClaims

\* a session token has just been resolved without calling the provider
C7_Witness ==
    /\ last.op = "update_profile"
    /\ last.status = 200
    /\ last.claims.scheme = "local"
    /\ last.fb = "skipped"

\* C8: a bearer token that fails local validation goes to the provider, and
\* when the provider does not verify it, for whatever reason, the response is
\* 401, never a 500.
C8_FallThroughEndsIn401 ==
    (last.bearer # NoToken /\ last.claims.scheme # "local")
        => /\ last.fb # "skipped"
           /\ last.status # 500
           /\ last.fb # "verified" => (last.status = 401 /\ last.claims.scheme = "none")

\* an expired session token met an unreachable provider and got 401
C8_Witness ==
    /\ last.bearer \in tokens
    /\ last.bearer.exp < clock
    /\ last.fb = "unreachable"
    /\ last.status = 401

\* C9 as stated: whatever key get_secret_key returns at verification, every
\* session token a client holds is accepted by decode_access_token before its
\* exp.
C9_IssuedTokenAccepted ==
    \A t \in tokens, k \in FreshKeys :
        clock < t.exp => decode_access_token(t, k) # NoClaims

IssuanceOps == {"register", "login", "admin_login", "firebase_auth"}

\* C10: the token an issuance path hands out carries the id, the email and
\* the stored role of the user and exp = now + ACCESS_TOKEN_EXPIRE_MINUTES
\* (1440); a token presented after its exp is not resolved as Local Claims.
C10_TokenContentsAndExpiry ==
    /\ (last.op \in IssuanceOps /\ last.status = 200)
          => /\ last.issued.kind = "jwt"
             /\ last.issued.sub \in DOMAIN users
             /\ last.issued.email = users[last.issued.sub].email
             /\ last.issued.role = users[last.issued.sub].role
             /\ last.issued.exp = clock + 1440
    /\ last.issued # NoToken => last.op \in IssuanceOps
    /\ (last.bearer.kind = "jwt" /\ last.bearer.exp < clock)
          => last.claims.scheme # "local"

\* a user whose role was changed has just logged in, some time after start
C10_Witness ==
    /\ last.op = "login"
    /\ last.status = 200
    /\ clock > 0
    /\ last.issued.role = "authority"
    /\ last.issued.exp = clock + 1440

\* the endpoints behind a role guard
GuardedOps == AdminOps \cup {"update_complaint_status"}

\* the stored user the response's claims name has one of these roles
CallerHasRole(roles) == CallerStored /\ users[last'.claims.sub].role \in roles

\* the roles the guard of an endpoint lets through
RequiredRoles(op) ==
    IF op = "update_complaint_status" THEN {"authority", "admin"} ELSE {"admin"}

\* C11: on a role-guarded endpoint a bearer that resolves under neither
\* scheme gets 401 and a resolved caller the role guard turns away gets 403;
\* 403 is never the answer to an unresolvable token, nor 401 to a resolved
\* caller.
C11_UnauthenticatedVsForbidden ==
    [][last'.op \in GuardedOps
         => /\ last'.claims.scheme = "none" <=> last'.status = 401
            /\ last'.claims.scheme # "none"
                  => (last'.status = 403 <=> ~CallerHasRole(RequiredRoles(last'.op)))]_vars

\* a citizen has just been refused by the complaint-status guard
C11_Witness ==
    /\ last.op = "update_complaint_status"
    /\ last.status = 403
    /\ last.claims.scheme = "local"
    /\ users[last.claims.sub].role = "citizen"

\* complaint i is stored before and after the step and its status or its
\* status_history differ
StatusChanged(i) ==
    /\ HasComplaint(i)
    /\ complaints'[i] # Deleted
    /\ \/ complaints'[i].status # complaints[i].status
       \/ complaints'[i].status_history # complaints[i].status_history

\* C12: update_complaint_status runs its handler if and only if the stored
\* user the claims name has role authority or admin; then an existing
\* complaint gets the new status (with resolved_at) and one more
\* status_history entry naming the caller.  Every other resolved caller (a citizen, a subject without a user
\* record) gets 403 and no complaint changes; no other step changes a status.
C12_StatusChangeIffAuthorityOrAdmin ==
    /\ [][(last'.op = "update_complaint_status" /\ last'.claims.scheme # "none")
            => /\ CallerHasRole({"authority", "admin"}) => last'.status \in {200, 404}
               /\ ~CallerHasRole({"authority", "admin"})
                     => last'.status = 403 /\ UNCHANGED complaints
               /\ last'.status = 404
                     => /\ UNCHANGED complaints
                        /\ \E i \in ComplaintIdInputs : ~HasComplaint(i)
               /\ last'.status = 200
                     => \E i \in DOMAIN complaints :
                          /\ HasComplaint(i)
                          /\ complaints' = [complaints EXCEPT
                                ![i].status = complaints'[i].status,
                                ![i].resolved_at = complaints'[i].resolved_at,
                                ![i].status_history =
                                    Append(@, StatusUpdate(complaints'[i].status,
                                                           last'.claims.sub))]]_vars
    /\ [][(\E i \in DOMAIN complaints : StatusChanged(i))
            => /\ last'.op = "update_complaint_status"
               /\ last'.status = 200
               /\ CallerHasRole({"authority", "admin"})]_vars

\* an authority whose token still says citizen has just resolved a complaint
C12_Witness ==
    /\ last.op = "update_complaint_status"
    /\ last.status = 200
    /\ last.claims.role = "citizen"
    /\ users[last.claims.sub].role = "authority"
    /\ \E i \in DOMAIN complaints : HasComplaint(i) /\ complaints[i].status = "resolved"

\* C13 as stated: the guard of update_complaint_status refuses every caller
\* whose stored is_active is false, whatever the caller's role.
C13_InactiveAuthorityDenied ==
    [][(/\ last'.op = "update_complaint_status"
        /\ CallerStored
        /\ ~users[last'.claims.sub].is_active) => last'.status = 403]_vars

\* caller sub may delete complaint i: it is the reporter or a stored admin
OwnerOrAdmin(i, sub) ==
    \/ complaints[i].reporter_id = sub
    \/ sub \in DOMAIN users /\ users[sub].role = "admin"

\* C14: delete_complaint removes a complaint if and only if it exists and the
\* caller is its reporter or a stored admin; every other caller, an authority
\* who is not the reporter included, is told it failed (404) and every
\* complaint stays as it was; no other step removes a complaint.
C14_DeleteIffOwnerOrAdmin ==
    /\ [][(last'.op = "delete_complaint" /\ last'.claims.scheme # "none")
            => /\ last'.status \in {200, 404}
               /\ last'.status = 200
                     => \E i \in DOMAIN complaints :
                          /\ HasComplaint(i)
                          /\ OwnerOrAdmin(i, last'.claims.sub)
                          /\ complaints' = [complaints EXCEPT ![i] = Deleted]
               /\ last'.status = 404
                     => /\ UNCHANGED complaints
                        /\ \E i \in ComplaintIdInputs :
                              ~(HasComplaint(i) /\ OwnerOrAdmin(i, last'.claims.sub))]_vars
    /\ [][(\E i \in DOMAIN complaints : HasComplaint(i) /\ complaints'[i] = Deleted)
            => last'.op = "delete_complaint" /\ last'.status = 200]_vars

\* an authority who is not the reporter has just been refused
C14_Witness ==
    /\ last.op = "delete_complaint"
    /\ last.status = 404
    /\ last.claims.scheme = "local"
    /\ users[last.claims.sub].role = "authority"
    /\ \E i \in DOMAIN complaints :
          HasComplaint(i) /\ complaints[i].reporter_id # last.claims.sub

\* the stored users a federated login with these claims finds, by uid and by
\* e-mail
ByUid(c) == {i \in DOMAIN users : users[i].firebase_uid = c.uid}
ByEmail(c) == {i \in DOMAIN users : users[i].email = c.email}

\* a federated login has just been answered for verified claims
FederatedLogin == last'.op = "firebase_auth" /\ last'.claims.scheme = "federated"

\* C15: a federated login whose claims match a stored user by e-mail only
\* links the uid to that user and inserts nothing; one whose uid is linked
\* changes nothing but that user's last_login; either way the token is for
\* that user (whose last_login is now the time of the login) and, after the
\* step, the lookup by uid finds exactly that user.  No other step changes a
\* firebase_uid or removes a user, so repeating the login keeps the number of
\* users and the user id.
C15_LinkByEmailIdempotent ==
    /\ [][(FederatedLogin /\ ByUid(last'.claims) \cup ByEmail(last'.claims) # {})
            => LET c == last'.claims
               IN  /\ last'.status = 200
                   /\ last'.issued.sub \in DOMAIN users
                   /\ ByUid(c) # {}
                         => /\ last'.issued.sub \in ByUid(c)
                            /\ users' = [users EXCEPT
                                           ![last'.issued.sub].last_login = clock]
                   /\ ByUid(c) = {}
                         => /\ last'.issued.sub \in ByEmail(c)
                            /\ users' = [users EXCEPT
                                           ![last'.issued.sub].firebase_uid = c.uid,
                                           ![last'.issued.sub].last_login = clock]
                   /\ {i \in DOMAIN users' : users'[i].firebase_uid = c.uid}
                         = {last'.issued.sub}]_vars
    /\ [][/\ DOMAIN users \subseteq DOMAIN users'
          /\ (\E i \in DOMAIN users : users'[i].firebase_uid # users[i].firebase_uid)
                => last'.op = "firebase_auth"]_vars

\* a registered account has just been linked to a federated identity
C15_Witness ==
    /\ last.op = "firebase_auth"
    /\ last.status = 200
    /\ last.issued.sub \in DOMAIN users
    /\ users[last.issued.sub].password_hash # NoHash
    /\ users[last.issued.sub].firebase_uid = last.claims.uid

\* C19 as stated: a federated login with verified claims that match no
\* stored user ends in a new account and a token, or in 401, never in an
\* unhandled exception (500).
C19_AbsenceHandled ==
    [][(FederatedLogin /\ ByUid(last'.claims) \cup ByEmail(last'.claims) = {})
         => \/ /\ last'.status = 200
               /\ last'.issued # NoToken
               /\ DOMAIN users' = DOMAIN users \cup {last'.issued.sub}
               /\ last'.issued.sub \notin DOMAIN users
            \/ last'.status = 401 /\ users' = users]_vars

\* the Federated Claims of a federated token whose custom claims carry role r
\* ("" for none)
FederatedClaimsWithRole(r) ==
    verify_id_token([AdminFirebaseToken EXCEPT !.role = r], "ok").val

\* C20: Federated Claims confer no role.  In every state the admin guard,
\* the complaint-status guard and the delete check give Federated Claims that
\* differ only in the role they carry the same decision; and a request
\* resolved to Federated Claims is decided on the stored user alone: 403 from
\* a role guard unless the stored user of its subject has the role, no
\* deletion unless that user is the reporter or an admin.
C20_FederatedClaimsConferNoRole ==
    /\ [](\A r \in Roles :
            LET c == FederatedClaimsWithRole(r)
                plain == FederatedClaimsWithRole("")
            IN  /\ verify_admin(c) = verify_admin(plain)
                /\ status_guard(c) = status_guard(plain)
                /\ \A i \in ComplaintIdInputs :
                      may_delete(i, c.sub) = may_delete(i, plain.sub))
    /\ [][last'.claims.scheme = "federated"
            => /\ last'.op \in GuardedOps
                     => (last'.status = 403 <=> ~CallerHasRole(RequiredRoles(last'.op)))
               /\ last'.op = "delete_complaint"
                     => (last'.status = 200
                           <=> \E i \in ComplaintIdInputs :
                                 /\ HasComplaint(i)
                                 /\ OwnerOrAdmin(i, last'.claims.sub)
                                 /\ complaints'[i] = Deleted)]_vars

\* Federated Claims that say admin have just been refused by the
\* complaint-status guard
C20_Witness ==
    /\ last.op = "update_complaint_status"
    /\ last.claims.scheme = "federated"
    /\ last.claims.role = "admin"
    /\ last.status = 403
    /\ \E i \in DOMAIN complaints : HasComplaint(i)

\* no sign-up request is being handled
Quiescent == \A s \in Slots : inflight[s] = NoRequest

\* the accounts federated logins created for this e-mail address
FederatedAccounts(e) ==
    {i \in DOMAIN users : users[i].email = e /\ users[i].password_hash = NoHash}

\* C16 as stated: once the federated logins for an e-mail address that
\* matched no stored user have finished, however their store operations
\* interleaved, one user record was created for that address, not two.
C16_OneAccountPerFederatedEmail ==
    Quiescent => \A e \in Emails : Cardinality(FederatedAccounts(e)) <= 1

\* C17 as stated: in every state no two user records hold the same non-null
\* firebase_uid.
C17_UniqueFirebaseUid ==
    \A i, j \in DOMAIN users :
        (i # j /\ users[i].firebase_uid # NoUid)
            => users[i].firebase_uid # users[j].firebase_uid

\* C18 as stated: after any interleaving of register_user and firebase_auth
\* no two user records share an email and no two share a username.
C18_UniqueEmailAndUsername ==
    \A i, j \in DOMAIN users :
        i # j => /\ users[i].email # users[j].email
                 /\ users[i].username # users[j].username

\* the credential verifier resolves the bearer with the provider working
Resolves(bearer) ==
    \E k \in FreshKeys : get_current_user_from_token(bearer, k, "ok").status = 200

\* C21 as stated: verify-token answers "Token is valid" (200) only to a
\* request whose bearer token the credential verifier resolves; no token, or
\* a token that resolves under neither scheme, gets 401.
C21_VerifyTokenRequiresAuthentication ==
    last.op = "verify_token"
        => IF Resolves(last.bearer) THEN last.status = 200 ELSE last.status = 401

\* C22: no step removes a user record (the stored ids only grow); an
\* answered DELETE /users/me changes nothing but is_active of the caller's
\* record, which becomes false, an answered toggle-active changes nothing
\* but is_active of one record, which is inverted, and a refused one of
\* either changes no user.
C22_UsersOnlyDeactivated ==
    [][/\ DOMAIN users \subseteq DOMAIN users'
       /\ last'.op = "deactivate_account"
            => IF last'.status = 200
               THEN /\ last'.claims.sub \in DOMAIN users
                    /\ users' = [users EXCEPT ![last'.claims.sub].is_active = FALSE]
               ELSE users' = users
       /\ last'.op = "toggle_user_active"
            => IF last'.status = 200
               THEN \E i \in DOMAIN users :
                      users' = [users EXCEPT ![i].is_active = ~users[i].is_active]
               ELSE users' = users]_vars

\* an account has just deactivated itself and its record is still stored
C22_Witness ==
    /\ last.op = "deactivate_account"
    /\ last.status = 200
    /\ last.claims.sub \in DOMAIN users
    /\ ~users[last.claims.sub].is_active
    /\ users[last.claims.sub].password_hash # NoHash

\* the stored users an administrator login with these credentials is for
AdminCredentials(email, password) ==
    {i \in DOMAIN users : /\ users[i].email = email
                          /\ users[i].password_hash # NoHash
                          /\ users[i].password_hash = get_password_hash(password)
                          /\ users[i].role = "admin"
                          /\ users[i].is_active}

\* C23: an admin_login step answers 200 with a token exactly when the
\* stored user with that e-mail has a password hash, the role admin, the
\* given password and is_active; the token is for that user and only its
\* last_login changes.  Every other admin_login step answers 401, issues no
\* token and leaves users and tokens unchanged.
C23_AdminLoginOnlyForActiveAdmin ==
    [][\A e \in Emails, pw \in Passwords, k \in FreshKeys :
          admin_login(e, pw, k)
             => IF AdminCredentials(e, pw) # {}
                THEN /\ last'.status = 200
                     /\ last'.issued # NoToken
                     /\ last'.issued.sub \in AdminCredentials(e, pw)
                     /\ users' = [users EXCEPT ![last'.issued.sub].last_login = clock]
                ELSE /\ last'.status = 401
                     /\ last'.issued = NoToken
                     /\ users' = users
                     /\ tokens' = tokens]_vars

\* an administrator login has just been refused while a deactivated
\* administrator with a password is stored
C23_Witness ==
    /\ last.op = "admin_login"
    /\ last.status = 401
    /\ \E i \in DOMAIN users : /\ users[i].role = "admin"
                                /\ users[i].password_hash # NoHash
                                /\ ~users[i].is_active

\* C25 as stated: no login step (login, admin_login, firebase_auth) issues a
\* token for an account that was stored and deactivated before the step.
C25_NoTokenForDeactivated ==
    [][(last'.op \in {"login", "admin_login", "firebase_auth"} /\ last'.issued # NoToken)
          => (last'.issued.sub \in DOMAIN users => users[last'.issued.sub].is_active)]_vars

\* the caller the last request resolved to is the one doc names in field
OwnedBy(doc, field) == last'.claims.scheme # "none" /\ doc[field] = last'.claims.sub

\* C24: update_post, delete_post, delete_comment and update_complaint change
\* the document they name exactly when the caller's id is its author_id
\* (reporter_id for a complaint): then they answer 200 and no other document
\* changes; for any other caller, an administrator included, they answer
\* 404 (401 without credentials) and posts, comments and complaints are
\* unchanged.
C24_OwnerOnlyMutations ==
    [][/\ last'.op \in {"update_post", "delete_post"}
            => \A i \in 1 .. MaxPosts :
                 (\/ delete_post(i, last'.bearer, "d1", "ok")
                  \/ \E r \in PostEdits : update_post(i, r, last'.bearer, "d1", "ok"))
                    => IF HasPost(i) /\ OwnedBy(posts[i], "author_id")
                       THEN /\ last'.status = 200
                            /\ \A j \in DOMAIN posts \ {i} : posts'[j] = posts[j]
                            /\ posts'[i].author_id = posts[i].author_id
                       ELSE /\ last'.status \in {401, 404}
                            /\ posts' = posts
       /\ last'.op = "delete_comment"
            => \A i \in 1 .. MaxComments :
                 delete_comment(i, last'.bearer, "d1", "ok")
                    => IF HasComment(i) /\ OwnedBy(comments[i], "author_id")
                       THEN /\ last'.status = 200
                            /\ comments' = [comments EXCEPT ![i].is_active = FALSE]
                       ELSE /\ last'.status \in {401, 404}
                            /\ comments' = comments
       /\ last'.op = "update_complaint"
            => \A i \in ComplaintIdInputs, r \in ComplaintEdits :
                 update_complaint(i, r, last'.bearer, "d1", "ok")
                    => IF HasComplaint(i) /\ OwnedBy(complaints[i], "reporter_id")
                       THEN /\ last'.status = 200
                            /\ \A j \in DOMAIN complaints \ {i} :
                                  complaints'[j] = complaints[j]
                            /\ complaints'[i].reporter_id = complaints[i].reporter_id
                       ELSE /\ last'.status \in {401, 404}
                            /\ complaints' = complaints]_vars

\* the administrator has just been refused the deletion of a comment of the
\* citizen, which is still active, after the citizen was refused a change of
\* the administrator's post
C24_Witness ==
    /\ last.op = "delete_comment"
    /\ last.status = 404
    /\ last.claims.scheme = "local"
    /\ last.claims.sub \in DOMAIN users
    /\ users[last.claims.sub].role = "admin"
    /\ \A i \in DOMAIN comments :
          comments[i].author_id # last.claims.sub /\ comments[i].is_active
    /\ Len(comments) = MaxComments
    /\ \E i \in DOMAIN posts : posts[i].content = "c1"

\* the two social lists of the stored users agree, without duplicates and
\* without a user in a list of their own
ListsAgree ==
    \A a \in DOMAIN users :
       /\ \A b \in DOMAIN users :
             In(b, users[a].following) <=> In(a, users[b].followers)
       /\ \A i, j \in DOMAIN users[a].following :
             users[a].following[i] = users[a].following[j] => i = j
       /\ \A i, j \in DOMAIN users[a].followers :
             users[a].followers[i] = users[a].followers[j] => i = j
       /\ ~In(a, users[a].following)
       /\ ~In(a, users[a].followers)

\* C26 as stated: whenever no follow or unfollow request is being handled,
\* b is in a.following iff a is in b.followers, no id is twice in a list and
\* no user is in a list of their own.
C26_SocialListsAgree == Quiescent => ListsAgree

\* how often x occurs in list
Count(x, list) == Cardinality({i \in DOMAIN list : list[i] = x})

\* C27 as stated: after a vote_poll call answered 200 the caller's id is
\* once in the votes of the option named in the call and in the votes of no
\* other option of that poll (so the named option is one of the poll); a
\* call naming an option id the poll does not have changes no votes.
C27_OneVotePerPoll ==
    [][last'.op = "vote_poll"
          => \A i \in 1 .. MaxPosts, o \in OptionIdInputs :
               vote_poll(i, o, last'.bearer, "d1", "ok")
                  => /\ last'.status = 200
                        => /\ \E k \in DOMAIN posts'[i].poll_options :
                                 posts'[i].poll_options[k].id = o
                           /\ \A k \in DOMAIN posts'[i].poll_options :
                                 Count(last'.claims.sub, posts'[i].poll_options[k].votes)
                                    = IF posts'[i].poll_options[k].id = o THEN 1 ELSE 0
                     /\ (HasPost(i) /\ \A k \in DOMAIN posts[i].poll_options :
                                            posts[i].poll_options[k].id # o)
                        => posts' = posts]_vars

\* C28 as stated: in every state the status of a stored complaint is the
\* status of the last entry of its status_history, and resolved_at is set
\* exactly when the status is resolved; a step that changes status or
\* status_history is an answered update_complaint_status, which appends one
\* entry with the new status and the caller's id.
C28_StatusMatchesHistory ==
    /\ [](\A i \in DOMAIN complaints :
            HasComplaint(i)
               => /\ complaints[i].status
                        = complaints[i].status_history[
                              Len(complaints[i].status_history)].status
                  /\ complaints[i].resolved_at # NoTime
                        <=> complaints[i].status = "resolved")
    /\ [][\A i \in DOMAIN complaints :
            StatusChanged(i)
               => /\ last'.op = "update_complaint_status"
                  /\ last'.status = 200
                  /\ complaints'[i].status_history =
                        Append(complaints[i].status_history,
                               StatusUpdate(complaints'[i].status, last'.claims.sub))]_vars

\* the stored messages of a session
MessagesOf(session_id, messages) ==
    {k \in DOMAIN messages : messages[k].session_id = session_id}

\* C29 as stated: a chat endpoint naming a session of another user answers
\* 404 and stores nothing; once a session was deleted (is_active false) no
\* step adds a message to it; and in every state message_count of a session
\* is the number of its stored messages.
C29_SessionsIsolatedAndClosed ==
    /\ [](\A i \in DOMAIN chat_sessions :
            chat_sessions[i].message_count
               = Cardinality(MessagesOf(i, chat_messages)))
    /\ [][/\ (/\ last'.op \in {"get_session", "get_session_messages", "chat",
                               "delete_session"}
               /\ last'.claims.scheme # "none"
               /\ \A i \in SessionIdInputs :
                     i \in DOMAIN chat_sessions
                        => chat_sessions[i].user_id # last'.claims.sub)
                 => /\ last'.status = 404
                    /\ UNCHANGED <<chat_sessions, chat_messages>>
          /\ \A i \in DOMAIN chat_sessions :
                ~chat_sessions[i].is_active
                   => MessagesOf(i, chat_messages') = MessagesOf(i, chat_messages)]_vars

\* C30 as stated: in every state authority_verified is true only for users
\* whose role is authority, and a step that makes a user's authority_verified
\* true is an answered verify_authority for a user whose role is authority.
C30_VerifiedOnlyAuthorities ==
    /\ [](\A i \in DOMAIN users :
            users[i].authority_verified => users[i].role = "authority")
    /\ [][\A i \in DOMAIN users :
            (users'[i].authority_verified /\ ~users[i].authority_verified)
               => /\ last'.op = "verify_authority"
                  /\ last'.status = 200
                  /\ users[i].role = "authority"]_vars

====
